---- MODULE Spec2Model ----
(***************************************************************************)
(* Dispatch and concurrency layer of the dictation app: the readiness      *)
(* state machine (state.rs), the model manager (model.rs), the             *)
(* transcription worker with its capacity-1 request channel (worker.rs)    *)
(* and the voice-activity trimming it runs (vad.rs).                       *)
(***************************************************************************)
EXTENDS Integers, Sequences, FiniteSets, TLC

VARIABLES
    state,        \* StateManager.state: the AtomicU8 holding the readiness state
    t_pc,         \* per caller thread: position inside a StateManager call
    t_op,         \* per caller thread: the StateManager method last called
    t_current,    \* per caller thread: the local `current` read by get()
    t_ret,        \* per caller thread: the value the last call returned
    transcriber,  \* ModelManager.transcriber: Option<Transcriber>
    model_lock,   \* holder of the Mutex around the transcriber
    loaders,      \* position of each model-loading thread
    slot,         \* the bounded(1) request channel, oldest first
    w_pc,         \* position of the worker thread
    w_req,        \* the request the worker is processing
    w_samples,    \* samples_to_transcribe of the request being processed
    events,       \* AppEvents posted through the EventLoopProxy, oldest first
    vad_enabled,  \* Config.vad_enabled: whether the worker owns a VadProcessor
    device_rate,  \* AudioCapture::sample_rate(), fixed per run
    recording_mode,       \* Config.recording_mode
    c_pc,                 \* position of the controller (the event-loop closure)
    hotkey_rx,            \* the unbounded hotkey channel, oldest first
    n_hotkeys,            \* number of hotkey events the listener has sent
    is_toggle_recording,  \* main()'s local flag of the same name
    is_recording,         \* AudioCapture.is_recording, the append flag
    stream,               \* AudioCapture.stream: Option<Stream>
    buffer,               \* AudioCapture.buffer: the blocks appended, oldest first
    n_submit,     \* history: number of submit calls made so far
    submit_log,   \* history: per submit call, what it logged, and which
                  \* requests were being processed and queued at that moment
    accepted,     \* history: ids of the requests accepted into the channel
    pulled,       \* history: ids of the requests the worker received
    n_returned,   \* history: number of process_request calls that returned
    outcomes,     \* history: the outcome posted for each request, in order
    a_log,        \* history: the AudioCapture calls made and the blocks its
                  \* stream delivered, oldest first
    a_ret,        \* history: what the last stop_recording returned
    v_in,         \* the arguments of a VadProcessor::process call
    v_out         \* what that call returned

smVars == <<state, t_pc, t_op, t_current, t_ret>>
modelVars == <<transcriber, model_lock, loaders>>
workerVars == <<slot, w_pc, w_req, w_samples, events>>
configVars == <<vad_enabled, device_rate, recording_mode>>
ctlVars == <<c_pc, hotkey_rx, n_hotkeys, is_toggle_recording>>
audioVars == <<is_recording, stream, buffer>>
callVars == <<a_log, a_ret>>
vadVars == <<v_in, v_out>>
historyVars == <<n_submit, submit_log, accepted, pulled, n_returned, outcomes>>
vars == <<smVars, modelVars, workerVars, configVars, ctlVars, audioVars,
          callVars, vadVars, historyVars>>

----------------------------------------------------------------------------
(* Bounds of the model *)

\* Number of submit calls explored.
MaxSubmits == 3
\* Number of model-loading threads.
MaxLoaders == 2

----------------------------------------------------------------------------
(* state.rs: ReadinessState and StateManager *)

ReadinessStates == {"Cold", "Loading", "Warm", "Hot", "Recording", "Transcribing"}

\* `state as u8`: the discriminant of a ReadinessState.
ToU8(s) ==
    CASE s = "Cold" -> 0
      [] s = "Loading" -> 1
      [] s = "Warm" -> 2
      [] s = "Hot" -> 3
      [] s = "Recording" -> 4
      [] s = "Transcribing" -> 5

\* impl From<u8> for ReadinessState: unknown bytes decode to Cold.
FromU8(v) ==
    CASE v = 0 -> "Cold"
      [] v = 1 -> "Loading"
      [] v = 2 -> "Warm"
      [] v = 3 -> "Hot"
      [] v = 4 -> "Recording"
      [] v = 5 -> "Transcribing"
      [] OTHER -> "Cold"

\* StateManager::get
Get == FromU8(state)

\* StateManager::set: the store itself.
Store(s) == state' = ToU8(s)

\* The threads that hold a clone of the StateManager and call it.
Threads == {"t1", "t2"}

\* A caller thread returns `r` from method `op`.
Return(t, op, r) ==
    /\ t_pc' = [t_pc EXCEPT ![t] = "idle"]
    /\ t_op' = [t_op EXCEPT ![t] = op]
    /\ t_ret' = [t_ret EXCEPT ![t] = r]

\* StateManager::set called directly (as the unit tests do).
Set(t, s) ==
    /\ t_pc[t] = "idle"
    /\ Store(s)
    /\ Return(t, "set", "unit")
    /\ UNCHANGED t_current

\* Faulty variant of TransitionToLoadingCheck: the test admits every state
\* in which no load is running.
TransitionToLoadingCheckLax(t) ==
    /\ t_pc[t] = "idle"
    /\ t_current' = [t_current EXCEPT ![t] = Get]
    /\ IF Get # "Loading"
       THEN /\ t_pc' = [t_pc EXCEPT ![t] = "loading_set"]
            /\ t_op' = [t_op EXCEPT ![t] = "transition_to_loading"]
            /\ t_ret' = [t_ret EXCEPT ![t] = "pending"]
       ELSE Return(t, "transition_to_loading", "false")
    /\ UNCHANGED state

\* transition_to_loading, first half: `let current = self.get()` and the test.
\* On Cold the thread goes on to the store; otherwise it returns false.
TransitionToLoadingCheck(t) ==
    /\ t_pc[t] = "idle"
    /\ t_current' = [t_current EXCEPT ![t] = Get]
    /\ IF Get = "Cold"
       THEN /\ t_pc' = [t_pc EXCEPT ![t] = "loading_set"]
            /\ t_op' = [t_op EXCEPT ![t] = "transition_to_loading"]
            /\ t_ret' = [t_ret EXCEPT ![t] = "pending"]
       ELSE Return(t, "transition_to_loading", "false")
    /\ UNCHANGED state

\* transition_to_loading, second half: `self.set(Loading); true`.
TransitionToLoadingSet(t) ==
    /\ t_pc[t] = "loading_set"
    /\ Store("Loading")
    /\ Return(t, "transition_to_loading", "true")
    /\ UNCHANGED t_current

\* transition_to_warm, first half.
TransitionToWarmCheck(t) ==
    /\ t_pc[t] = "idle"
    /\ t_current' = [t_current EXCEPT ![t] = Get]
    /\ IF Get = "Loading"
       THEN /\ t_pc' = [t_pc EXCEPT ![t] = "warm_set"]
            /\ t_op' = [t_op EXCEPT ![t] = "transition_to_warm"]
            /\ t_ret' = [t_ret EXCEPT ![t] = "pending"]
       ELSE Return(t, "transition_to_warm", "false")
    /\ UNCHANGED state

\* transition_to_warm, second half.
TransitionToWarmSet(t) ==
    /\ t_pc[t] = "warm_set"
    /\ Store("Warm")
    /\ Return(t, "transition_to_warm", "true")
    /\ UNCHANGED t_current

\* Faulty variant of TransitionToIdle: only work in progress is finished.
TransitionToIdleFromWork(t) ==
    /\ t_pc[t] = "idle"
    /\ IF Get \in {"Recording", "Transcribing"} THEN Store("Hot") ELSE UNCHANGED state
    /\ Return(t, "transition_to_idle", "unit")
    /\ UNCHANGED t_current

\* transition_to_idle: `self.set(ReadinessState::Hot)`.
TransitionToIdle(t) ==
    /\ t_pc[t] = "idle"
    /\ Store("Hot")
    /\ Return(t, "transition_to_idle", "unit")
    /\ UNCHANGED t_current

\* Faulty variant of TransitionToRecording: recording is refused unless the
\* state is ready for it.
TransitionToRecordingIfReady(t) ==
    /\ t_pc[t] = "idle"
    /\ IF Get \in {"Warm", "Hot"}
       THEN Store("Recording") /\ Return(t, "transition_to_recording", "true")
       ELSE UNCHANGED state /\ Return(t, "transition_to_recording", "false")
    /\ UNCHANGED t_current

\* transition_to_recording: `self.set(Recording); true`.
TransitionToRecording(t) ==
    /\ t_pc[t] = "idle"
    /\ Store("Recording")
    /\ Return(t, "transition_to_recording", "true")
    /\ UNCHANGED t_current

\* transition_to_transcribing: `self.set(Transcribing); true`.
TransitionToTranscribing(t) ==
    /\ t_pc[t] = "idle"
    /\ Store("Transcribing")
    /\ Return(t, "transition_to_transcribing", "true")
    /\ UNCHANGED t_current

\* Faulty variant of TransitionToCold: work in progress is not interrupted.
TransitionToColdUnlessBusy(t) ==
    /\ t_pc[t] = "idle"
    /\ IF Get \in {"Recording", "Transcribing"} THEN UNCHANGED state ELSE Store("Cold")
    /\ Return(t, "transition_to_cold", "unit")
    /\ UNCHANGED t_current

\* transition_to_cold: `self.set(ReadinessState::Cold)`.
TransitionToCold(t) ==
    /\ t_pc[t] = "idle"
    /\ Store("Cold")
    /\ Return(t, "transition_to_cold", "unit")
    /\ UNCHANGED t_current

\* Faulty variant of IsReadyForRecording: only Hot counts as ready.
IsReadyForRecordingHotOnly(t) ==
    /\ t_pc[t] = "idle"
    /\ t_current' = [t_current EXCEPT ![t] = Get]
    /\ Return(t, "is_ready_for_recording", IF Get = "Hot" THEN "true" ELSE "false")
    /\ UNCHANGED state

\* is_ready_for_recording: matches!(self.get(), Warm | Hot).
IsReadyForRecording(t) ==
    /\ t_pc[t] = "idle"
    /\ t_current' = [t_current EXCEPT ![t] = Get]
    /\ Return(t, "is_ready_for_recording",
              IF Get \in {"Warm", "Hot"} THEN "true" ELSE "false")
    /\ UNCHANGED state

\* StateManager::get called directly: returns the state it loads.
GetState(t) ==
    /\ t_pc[t] = "idle"
    /\ t_current' = [t_current EXCEPT ![t] = Get]
    /\ Return(t, "get", Get)
    /\ UNCHANGED state

\* Any step of any StateManager method by thread t.
StateManagerStep(t) ==
    \/ \E s \in ReadinessStates : Set(t, s)
    \/ GetState(t)
    \/ TransitionToLoadingCheck(t)
    \/ TransitionToLoadingSet(t)
    \/ TransitionToWarmCheck(t)
    \/ TransitionToWarmSet(t)
    \/ TransitionToIdle(t)
    \/ TransitionToRecording(t)
    \/ TransitionToTranscribing(t)
    \/ TransitionToCold(t)
    \/ IsReadyForRecording(t)

\* StateManager::new, no call made yet.
InitStateManager ==
    /\ state = ToU8("Cold")
    /\ t_pc = [t \in Threads |-> "idle"]
    /\ t_op = [t \in Threads |-> "none"]
    /\ t_current = [t \in Threads |-> "Cold"]
    /\ t_ret = [t \in Threads |-> "none"]

----------------------------------------------------------------------------
(* vad.rs: VadProcessor *)

\* Config::vad_threshold, in hundredths (default 0.5).
VadThreshold == 50

\* Sample rates the input device may run at.
Rates == {8000, 16000, 48000}

\* Faulty variant of MinSpeechSamples: one sample more than 100 ms.
MinSpeechSamplesLonger(rate) == rate \div 10 + 1

\* VadProcessor::new: (sample_rate as f32 * 0.1) as usize.
MinSpeechSamples(rate) == rate \div 10
\* Faulty variant of PaddingSamples: 100 ms of padding.
PaddingSamplesDouble(rate) == rate \div 10

\* VadProcessor::new: (sample_rate as f32 * 0.05) as usize.
PaddingSamples(rate) == rate \div 20

\* A sample buffer is the span [from, to) of the recording it was cut from.
SamplesLen(samples) == samples.to - samples.from

ChunkSize(sample_rate) == IF sample_rate = 8000 THEN 256 ELSE 512

\* Faulty variant of FullChunks: the final partial chunk is classified too.
FullChunksAndPartial(samples, sample_rate) ==
    (SamplesLen(samples) + ChunkSize(sample_rate) - 1) \div ChunkSize(sample_rate)

\* Number of full chunks: a final partial chunk ends the loop.
FullChunks(samples, sample_rate) == SamplesLen(samples) \div ChunkSize(sample_rate)

SetMin(S) == CHOOSE x \in S : \A y \in S : x <= y
SetMax(S) == CHOOSE x \in S : \A y \in S : x >= y
Min2(a, b) == IF a <= b THEN a ELSE b

\* usize::saturating_sub
SaturatingSub(a, b) == IF a >= b THEN a - b ELSE 0

\* VadProcessor::process.  `vad_rate` is the rate the processor was built
\* with, `build` the outcome of VoiceActivityDetector::builder().build(),
\* `probs[i]` the classifier's probability for full chunk i.
\* Result: kind "Err", "None" or "Some" (with the trimmed samples).
VadProcess(vad_rate, samples, sample_rate, build, probs) ==
    LET chunk_size == ChunkSize(sample_rate)
        speech == {i \in 0..(FullChunks(samples, sample_rate) - 1) :
                      probs[i] > VadThreshold}
        has_speech == speech # {}
        start == SetMin(speech) * chunk_size
        end == SetMax(speech) * chunk_size + chunk_size
        padded_start == SaturatingSub(start, PaddingSamples(vad_rate))
        padded_end == Min2(end + PaddingSamples(vad_rate), SamplesLen(samples))
        trimmed_len == padded_end - padded_start
    IN  IF build = "err" THEN [kind |-> "Err", samples |-> samples]
        ELSE IF ~has_speech THEN [kind |-> "None", samples |-> samples]
        ELSE IF trimmed_len < MinSpeechSamples(vad_rate)
             THEN [kind |-> "None", samples |-> samples]
        ELSE [kind |-> "Some",
              samples |-> [from |-> samples.from + padded_start,
                           to |-> samples.from + padded_end]]

----------------------------------------------------------------------------
(* transcriber.rs: Transcriber::transcribe *)

\* Text is a sequence of tokens; " " stands for whitespace.
BlankMarker == <<"[BLANK_AUDIO]">>

\* What the engine's segments may concatenate to.
RawTexts == {<<>>, <<" ">>, <<"[BLANK_AUDIO]">>, <<" ", "[BLANK_AUDIO]">>,
             <<"hello">>, <<" ", "hello", " ">>}

\* What the external engine does with one call: it fails (resampling,
\* create_state or full return an error) or yields the segments' text.
EngineResults == {[ok |-> FALSE, raw |-> <<>>]} \cup
                 {[ok |-> TRUE, raw |-> r] : r \in RawTexts}

RECURSIVE TrimStart(_)
TrimStart(text) ==
    IF text # <<>> /\ Head(text) = " " THEN TrimStart(Tail(text)) ELSE text

RECURSIVE TrimEnd(_)
TrimEnd(text) ==
    IF text # <<>> /\ text[Len(text)] = " "
    THEN TrimEnd(SubSeq(text, 1, Len(text) - 1))
    ELSE text

\* str::trim
Trim(text) == TrimEnd(TrimStart(text))

\* Transcriber::transcribe: Err, or Ok(trimmed text, the marker cleared).
TranscriberTranscribe(engine) ==
    IF ~engine.ok THEN [ok |-> FALSE, text |-> <<>>]
    ELSE LET result == Trim(engine.raw)
         IN  [ok |-> TRUE, text |-> IF result = BlankMarker THEN <<>> ELSE result]

----------------------------------------------------------------------------
(* model.rs: the loading thread spawned by ModelManager::load_async *)

LoaderIds == 1..MaxLoaders

\* Transcriber::new succeeded (warmup's result is only logged):
\* `*transcriber.lock() = Some(t)`.
LoaderStoreTranscriber(l) ==
    /\ loaders[l] = "new"
    /\ model_lock = "free"
    /\ transcriber' = "Some"
    /\ loaders' = [loaders EXCEPT ![l] = "loaded"]
    /\ UNCHANGED <<model_lock, smVars, workerVars, configVars, callVars, vadVars, ctlVars, audioVars, historyVars>>

\* ... followed by `state.transition_to_idle()`.
LoaderTransitionToIdle(l) ==
    /\ loaders[l] = "loaded"
    /\ Store("Hot")
    /\ loaders' = [loaders EXCEPT ![l] = "done"]
    /\ UNCHANGED <<t_pc, t_op, t_current, t_ret, transcriber, model_lock,
                   workerVars, configVars, callVars, vadVars, ctlVars, audioVars, historyVars>>

\* Faulty variant of LoaderFail: the failed load leaves the state Loading.
LoaderFailStaysLoading(l) ==
    /\ loaders[l] = "new"
    /\ loaders' = [loaders EXCEPT ![l] = "done"]
    /\ UNCHANGED <<smVars, transcriber, model_lock,
                   workerVars, configVars, callVars, vadVars, ctlVars, audioVars, historyVars>>

\* Transcriber::new failed: `state.transition_to_cold()`.
LoaderFail(l) ==
    /\ loaders[l] = "new"
    /\ Store("Cold")
    /\ loaders' = [loaders EXCEPT ![l] = "done"]
    /\ UNCHANGED <<t_pc, t_op, t_current, t_ret, transcriber, model_lock,
                   workerVars, configVars, callVars, vadVars, ctlVars, audioVars, historyVars>>

----------------------------------------------------------------------------
(* model.rs: the ModelManager methods called by the threads holding it *)

\* Positions of a thread inside load_async or ensure_loaded.
LoadPcs == {"ensure_load", "load_set", "load_spawn"}

\* A loading thread can still be spawned for every call under way (the
\* number of loading threads explored is MaxLoaders).
LoaderLeft ==
    Cardinality({l \in LoaderIds : loaders[l] = "unspawned"}) >
        Cardinality({u \in Threads : t_pc[u] \in LoadPcs})

\* load_async up to the test: transition_to_loading reads the state and
\* returns false unless it is Cold, on which load_async returns.
LoadAsyncBegin(t, op) ==
    /\ t_current' = [t_current EXCEPT ![t] = Get]
    /\ IF Get = "Cold"
       THEN /\ t_pc' = [t_pc EXCEPT ![t] = "load_set"]
            /\ t_op' = [t_op EXCEPT ![t] = op]
            /\ t_ret' = [t_ret EXCEPT ![t] = "pending"]
       ELSE Return(t, op, "unit")
    /\ UNCHANGED <<state, modelVars, workerVars, configVars, callVars, vadVars, ctlVars, audioVars,
                   historyVars>>

\* ModelManager::load_async called.
LoadAsync(t) ==
    /\ t_pc[t] = "idle"
    /\ LoaderLeft
    /\ LoadAsyncBegin(t, "load_async")

\* ModelManager::ensure_loaded called: `current = self.state.get()`, and
\* load_async is entered when it is Cold.
EnsureLoaded(t) ==
    /\ t_pc[t] = "idle"
    /\ LoaderLeft
    /\ t_current' = [t_current EXCEPT ![t] = Get]
    /\ IF Get = "Cold"
       THEN /\ t_pc' = [t_pc EXCEPT ![t] = "ensure_load"]
            /\ t_op' = [t_op EXCEPT ![t] = "ensure_loaded"]
            /\ t_ret' = [t_ret EXCEPT ![t] = "pending"]
       ELSE Return(t, "ensure_loaded", "unit")
    /\ UNCHANGED <<state, modelVars, workerVars, configVars, callVars, vadVars, ctlVars, audioVars,
                   historyVars>>

\* ensure_loaded: `self.load_async()`.
EnsureLoadedLoadAsync(t) ==
    /\ t_pc[t] = "ensure_load"
    /\ LoadAsyncBegin(t, "ensure_loaded")

\* load_async: transition_to_loading stores Loading and returns true.
LoadAsyncSet(t) ==
    /\ t_pc[t] = "load_set"
    /\ Store("Loading")
    /\ t_pc' = [t_pc EXCEPT ![t] = "load_spawn"]
    /\ UNCHANGED <<t_op, t_current, t_ret, modelVars, workerVars, configVars, callVars, vadVars,
                   ctlVars, audioVars, historyVars>>

\* load_async: thread::spawn of the loading thread; the call returns.
LoadAsyncSpawn(t) ==
    /\ t_pc[t] = "load_spawn"
    /\ \E l \in LoaderIds :
          /\ loaders[l] = "unspawned"
          /\ \A k \in LoaderIds : k < l => loaders[k] # "unspawned"
          /\ loaders' = [loaders EXCEPT ![l] = "new"]
    /\ Return(t, t_op[t], "unit")
    /\ UNCHANGED <<state, t_current, transcriber, model_lock, workerVars,
                   configVars, callVars, vadVars, ctlVars, audioVars, historyVars>>

\* Faulty variant of UnloadTake: the handle is cleared without waiting for
\* the lock.
UnloadTakeNoLock(t) ==
    /\ t_pc[t] = "idle"
    /\ transcriber' = "None"
    /\ t_pc' = [t_pc EXCEPT ![t] = "unload_cold"]
    /\ t_op' = [t_op EXCEPT ![t] = "unload"]
    /\ t_ret' = [t_ret EXCEPT ![t] = "pending"]
    /\ UNCHANGED <<state, t_current, model_lock, loaders, workerVars,
                   configVars, callVars, vadVars, ctlVars, audioVars, historyVars>>

\* ModelManager::unload: `*self.transcriber.lock() = None`, which waits for
\* the lock.
UnloadTake(t) ==
    /\ t_pc[t] = "idle"
    /\ model_lock = "free"
    /\ transcriber' = "None"
    /\ t_pc' = [t_pc EXCEPT ![t] = "unload_cold"]
    /\ t_op' = [t_op EXCEPT ![t] = "unload"]
    /\ t_ret' = [t_ret EXCEPT ![t] = "pending"]
    /\ UNCHANGED <<state, t_current, model_lock, loaders, workerVars,
                   configVars, callVars, vadVars, ctlVars, audioVars, historyVars>>

\* unload: `self.state.transition_to_cold()`; the call returns.
UnloadTransitionToCold(t) ==
    /\ t_pc[t] = "unload_cold"
    /\ Store("Cold")
    /\ Return(t, "unload", "unit")
    /\ UNCHANGED <<t_current, modelVars, workerVars, configVars, callVars, vadVars, ctlVars,
                   audioVars, historyVars>>

\* Any step of a ModelManager method by thread t.
ModelManagerStep(t) ==
    \/ LoadAsync(t)
    \/ EnsureLoaded(t)
    \/ EnsureLoadedLoadAsync(t)
    \/ LoadAsyncSet(t)
    \/ LoadAsyncSpawn(t)
    \/ UnloadTake(t)
    \/ UnloadTransitionToCold(t)

----------------------------------------------------------------------------
(* worker.rs: TranscriptionWorker *)

\* bounded::<TranscriptionRequest>(1)
SlotCapacity == 1
\* process_request: `samples_to_transcribe.len() <= 1600`
MinSamples == 1600

\* Lengths of the recordings submitted.
RequestLens == {1600, 1601, 1824, 2400}

NoSamples == [from |-> 0, to |-> 0]
\* w_req while the worker is not processing anything.
NoRequest == [id |-> 0, samples |-> NoSamples, sample_rate |-> 0]

\* A TranscriptionRequest; `id` numbers the submit call that carried it.
NewRequest(id, len) ==
    [id |-> id, samples |-> [from |-> 0, to |-> len], sample_rate |-> device_rate]

TranscriptionFailed == [type |-> "TranscriptionFailed", text |-> <<>>]
TranscriptionComplete(text) == [type |-> "TranscriptionComplete", text |-> text]

\* History of submit: the branch taken (the line it logs).
Logged(result) ==
    submit_log' = Append(submit_log,
                         [result |-> result,
                          busy_with |-> w_req.id,
                          queued |-> IF slot = <<>> THEN 0 ELSE Head(slot).id])

\* Faulty variant of TrySend: a full channel evicts the queued request and
\* keeps the incoming one ("only the latest audio").
TrySendEvict(request) ==
    IF w_pc = "dead"
    THEN /\ Logged("disconnected")
         /\ UNCHANGED <<slot, accepted>>
    ELSE IF Len(slot) < SlotCapacity
    THEN /\ slot' = Append(slot, request)
         /\ accepted' = Append(accepted, request.id)
         /\ Logged("submitted")
    ELSE /\ slot' = Append(Tail(slot), request)
         /\ accepted' = Append(accepted, request.id)
         /\ Logged("submitted")

\* Faulty variant of TrySend: the channel grows without bound.
TrySendUnbounded(request) ==
    IF w_pc = "dead"
    THEN /\ Logged("disconnected")
         /\ UNCHANGED <<slot, accepted>>
    ELSE /\ slot' = Append(slot, request)
         /\ accepted' = Append(accepted, request.id)
         /\ Logged("submitted")

\* Faulty variant of TrySend: a rendezvous channel (capacity 0), which takes
\* a request only while the worker waits in recv.
TrySendRendezvous(request) ==
    IF w_pc = "dead"
    THEN /\ Logged("disconnected")
         /\ UNCHANGED <<slot, accepted>>
    ELSE IF Len(slot) < SlotCapacity /\ w_pc = "recv"
    THEN /\ slot' = Append(slot, request)
         /\ accepted' = Append(accepted, request.id)
         /\ Logged("submitted")
    ELSE /\ Logged("full")
         /\ UNCHANGED <<slot, accepted>>

\* Faulty variant of TrySend: a blocking send, which waits for room.
TrySendBlocking(request) ==
    IF w_pc = "dead"
    THEN /\ Logged("disconnected")
         /\ UNCHANGED <<slot, accepted>>
    ELSE /\ Len(slot) < SlotCapacity
         /\ slot' = Append(slot, request)
         /\ accepted' = Append(accepted, request.id)
         /\ Logged("submitted")

\* try_send on the channel: Ok while there is room and the receiver lives,
\* Full when the buffer holds SlotCapacity requests, Disconnected when the
\* receiver (owned by the worker thread) is gone.
TrySend(request) ==
    IF w_pc = "dead"
    THEN /\ Logged("disconnected")
         /\ UNCHANGED <<slot, accepted>>
    ELSE IF Len(slot) < SlotCapacity
    THEN /\ slot' = Append(slot, request)
         /\ accepted' = Append(accepted, request.id)
         /\ Logged("submitted")
    ELSE /\ Logged("full")
         /\ UNCHANGED <<slot, accepted>>

\* TranscriptionWorker::submit, called with the next recording.
Submit(len) ==
    /\ n_submit < MaxSubmits
    /\ n_submit' = n_submit + 1
    /\ TrySend(NewRequest(n_submit + 1, len))
    /\ UNCHANGED <<smVars, modelVars, w_pc, w_req, w_samples, events,
                   configVars, callVars, vadVars, ctlVars, audioVars, pulled, n_returned, outcomes>>

\* proxy.send_event(ev) for the request being processed.
SendEvent(ev) ==
    /\ events' = Append(events, ev)
    /\ outcomes' = Append(outcomes, [req |-> w_req.id, ev |-> ev])

\* process_request returns: the worker loops back to request_rx.recv().
ProcessReturn ==
    /\ w_pc' = "recv"
    /\ w_req' = NoRequest
    /\ w_samples' = NoSamples
    /\ n_returned' = n_returned + 1

\* Faulty variant of WorkerRecv: a request is taken up as soon as it is
\* queued, whether or not the previous process_request has returned.
WorkerRecvEager ==
    /\ w_pc # "dead"
    /\ slot # <<>>
    /\ w_req' = Head(slot)
    /\ slot' = Tail(slot)
    /\ pulled' = Append(pulled, Head(slot).id)
    /\ w_pc' = "process"
    /\ UNCHANGED <<smVars, modelVars, w_samples, events, configVars, callVars, vadVars, ctlVars, audioVars,
                   n_submit, submit_log, accepted, n_returned, outcomes>>

\* The worker loop: request_rx.recv() hands over the oldest queued request.
WorkerRecv ==
    /\ w_pc = "recv"
    /\ slot # <<>>
    /\ w_req' = Head(slot)
    /\ slot' = Tail(slot)
    /\ pulled' = Append(pulled, Head(slot).id)
    /\ w_pc' = "process"
    /\ UNCHANGED <<smVars, modelVars, w_samples, events, configVars, callVars, vadVars, ctlVars, audioVars,
                   n_submit, submit_log, accepted, n_returned, outcomes>>

\* What the classifier may answer for the n full chunks of a request, each
\* chunk's probability being just above the threshold or exactly at it: no
\* chunk above the threshold, or one run of chunks above it.  (The result of
\* VadProcess depends only on the first and the last chunk above the
\* threshold, so runs with gaps add no outcome.)
ClassifierOutputs(n) ==
    {[i \in 0..(n - 1) |-> IF a <= i /\ i < b THEN VadThreshold + 1 ELSE VadThreshold] :
        a \in 0..n, b \in 0..n}

\* Faulty variant of SamplesToTranscribe: a segmenter error fails the
\* request like "no speech".
SamplesToTranscribeStrict(request, build, probs) ==
    IF vad_enabled
    THEN LET r == VadProcess(device_rate, request.samples, request.sample_rate,
                             build, probs)
         IN  IF r.kind = "Some" THEN r
             ELSE [kind |-> "None", samples |-> request.samples]
    ELSE [kind |-> "Some", samples |-> request.samples]

\* process_request step 1: samples_to_transcribe, or "None" when the
\* segmenter found no speech.
SamplesToTranscribe(request, build, probs) ==
    IF vad_enabled
    THEN LET r == VadProcess(device_rate, request.samples, request.sample_rate,
                             build, probs)
         IN  IF r.kind = "Some" THEN r
             ELSE IF r.kind = "None" THEN r
             ELSE [kind |-> "Some", samples |-> request.samples]
    ELSE [kind |-> "Some", samples |-> request.samples]

\* Faulty variant of WorkerTrim: "no speech" returns without posting.
WorkerTrimSilent ==
    /\ w_pc = "process"
    /\ \E build \in {"ok", "err"} :
       \E probs \in ClassifierOutputs(FullChunks(w_req.samples, w_req.sample_rate)) :
          LET s == SamplesToTranscribe(w_req, build, probs)
          IN  IF s.kind = "None"
              THEN ProcessReturn /\ UNCHANGED <<events, outcomes>>
              ELSE IF SamplesLen(s.samples) <= MinSamples
              THEN SendEvent(TranscriptionFailed) /\ ProcessReturn
              ELSE /\ w_pc' = "transcribe"
                   /\ w_samples' = s.samples
                   /\ UNCHANGED <<w_req, events, n_returned, outcomes>>
    /\ UNCHANGED <<smVars, modelVars, slot, configVars, callVars, vadVars, ctlVars, audioVars,
                   n_submit, submit_log, accepted, pulled>>

\* Faulty variant of WorkerTrim: a request that fails before inference
\* resets the readiness state itself.
WorkerTrimSetsHot ==
    /\ w_pc = "process"
    /\ \E build \in {"ok", "err"} :
       \E probs \in ClassifierOutputs(FullChunks(w_req.samples, w_req.sample_rate)) :
          LET s == SamplesToTranscribe(w_req, build, probs)
          IN  IF s.kind = "None" \/ SamplesLen(s.samples) <= MinSamples
              THEN SendEvent(TranscriptionFailed) /\ ProcessReturn /\ Store("Hot")
              ELSE /\ w_pc' = "transcribe"
                   /\ w_samples' = s.samples
                   /\ UNCHANGED <<state, w_req, events, n_returned, outcomes>>
    /\ UNCHANGED <<t_pc, t_op, t_current, t_ret, modelVars, slot, configVars, callVars, vadVars,
                   ctlVars, audioVars, n_submit, submit_log, accepted, pulled>>

\* Faulty variant of WorkerTrim: the length check is `< 1600`.
WorkerTrimLt ==
    /\ w_pc = "process"
    /\ \E build \in {"ok", "err"} :
       \E probs \in ClassifierOutputs(FullChunks(w_req.samples, w_req.sample_rate)) :
          LET s == SamplesToTranscribe(w_req, build, probs)
          IN  IF s.kind = "None" \/ SamplesLen(s.samples) < MinSamples
              THEN SendEvent(TranscriptionFailed) /\ ProcessReturn
              ELSE /\ w_pc' = "transcribe"
                   /\ w_samples' = s.samples
                   /\ UNCHANGED <<w_req, events, n_returned, outcomes>>
    /\ UNCHANGED <<smVars, modelVars, slot, configVars, callVars, vadVars, ctlVars, audioVars,
                   n_submit, submit_log, accepted, pulled>>

\* process_request steps 1 and 2: trimming and the minimum-length check.
WorkerTrim ==
    /\ w_pc = "process"
    /\ \E build \in {"ok", "err"} :
       \E probs \in ClassifierOutputs(FullChunks(w_req.samples, w_req.sample_rate)) :
          LET s == SamplesToTranscribe(w_req, build, probs)
          IN  IF s.kind = "None"
              THEN SendEvent(TranscriptionFailed) /\ ProcessReturn
              ELSE IF SamplesLen(s.samples) <= MinSamples
              THEN SendEvent(TranscriptionFailed) /\ ProcessReturn
              ELSE /\ w_pc' = "transcribe"
                   /\ w_samples' = s.samples
                   /\ UNCHANGED <<w_req, events, n_returned, outcomes>>
    /\ UNCHANGED <<smVars, modelVars, slot, configVars, callVars, vadVars, ctlVars, audioVars,
                   n_submit, submit_log, accepted, pulled>>

\* Faulty variant of WorkerLock: without a transcriber process_request
\* returns without posting anything.
WorkerLockSilent ==
    /\ w_pc = "transcribe"
    /\ model_lock = "free"
    /\ IF transcriber = "Some"
       THEN /\ model_lock' = "worker"
            /\ w_pc' = "engine"
            /\ UNCHANGED <<w_req, w_samples, events, n_returned, outcomes>>
       ELSE /\ ProcessReturn
            /\ UNCHANGED <<model_lock, events, outcomes>>
    /\ UNCHANGED <<smVars, transcriber, loaders, slot, configVars, callVars, vadVars, ctlVars, audioVars,
                   n_submit, submit_log, accepted, pulled>>

\* ModelManager::transcribe: take the lock; without a transcriber the call
\* fails at once ("Model not loaded"), with one the engine starts.
WorkerLock ==
    /\ w_pc = "transcribe"
    /\ model_lock = "free"
    /\ IF transcriber = "Some"
       THEN /\ model_lock' = "worker"
            /\ w_pc' = "engine"
            /\ UNCHANGED <<w_req, w_samples, events, n_returned, outcomes>>
       ELSE /\ SendEvent(TranscriptionFailed)
            /\ ProcessReturn
            /\ UNCHANGED model_lock
    /\ UNCHANGED <<smVars, transcriber, loaders, slot, configVars, callVars, vadVars, ctlVars, audioVars,
                   n_submit, submit_log, accepted, pulled>>

\* Faulty variant of OutcomeOf: every Ok(text) is passed on as Complete.
OutcomeOfAnyText(result) ==
    IF result.ok THEN TranscriptionComplete(result.text) ELSE TranscriptionFailed

\* process_request step 3, the match on the engine's result.
OutcomeOf(result) ==
    IF result.ok
    THEN IF result.text = <<>>
         THEN TranscriptionFailed
         ELSE TranscriptionComplete(result.text)
    ELSE TranscriptionFailed

\* Faulty variant of WorkerEngine: an engine error is only logged.
WorkerEngineSilentErr ==
    /\ w_pc = "engine"
    /\ \E engine \in EngineResults :
          IF TranscriberTranscribe(engine).ok
          THEN SendEvent(OutcomeOf(TranscriberTranscribe(engine)))
          ELSE UNCHANGED <<events, outcomes>>
    /\ ProcessReturn
    /\ model_lock' = "free"
    /\ UNCHANGED <<smVars, transcriber, loaders, slot, configVars, callVars, vadVars, ctlVars, audioVars,
                   n_submit, submit_log, accepted, pulled>>

\* Faulty variant of WorkerEngine: the worker itself returns the readiness
\* state to Hot when it posts the outcome.
WorkerEngineSetsHot ==
    /\ w_pc = "engine"
    /\ \E engine \in EngineResults :
          SendEvent(OutcomeOf(TranscriberTranscribe(engine)))
    /\ ProcessReturn
    /\ model_lock' = "free"
    /\ Store("Hot")
    /\ UNCHANGED <<t_pc, t_op, t_current, t_ret, transcriber, loaders, slot,
                   configVars, callVars, vadVars, ctlVars, audioVars,
                   n_submit, submit_log, accepted, pulled>>

\* Transcriber::transcribe returns; the guard is dropped and the outcome posted.
WorkerEngine ==
    /\ w_pc = "engine"
    /\ \E engine \in EngineResults :
          SendEvent(OutcomeOf(TranscriberTranscribe(engine)))
    /\ ProcessReturn
    /\ model_lock' = "free"
    /\ UNCHANGED <<smVars, transcriber, loaders, slot, configVars, callVars, vadVars, ctlVars, audioVars,
                   n_submit, submit_log, accepted, pulled>>

\* The worker thread unwinds inside an external call (the classifier or the
\* engine panics): the thread ends, its lock guard and the channel's
\* receiver are dropped, and no outcome is posted for the request in hand.
WorkerPanic ==
    /\ w_pc \in {"process", "engine"}
    /\ w_pc' = "dead"
    /\ slot' = <<>>
    /\ model_lock' = IF model_lock = "worker" THEN "free" ELSE model_lock
    /\ UNCHANGED <<smVars, transcriber, loaders, w_req, w_samples, events,
                   configVars, callVars, vadVars, ctlVars, audioVars, historyVars>>

----------------------------------------------------------------------------
(* audio.rs: AudioCapture, as far as main() uses it *)

\* Number of blocks the input stream delivers during one recording.
MaxBlocks == 1

\* Sizes (in mono samples) of the blocks the stream hands to the data callback.
BlockLens == {1600, 1601}

\* buffer.len(): the number of samples in the blocks appended.
RECURSIVE BufferLen(_)
BufferLen(blocks) ==
    IF blocks = <<>> THEN 0 ELSE Head(blocks) + BufferLen(Tail(blocks))

\* AudioCapture::new
InitAudio ==
    /\ is_recording = FALSE
    /\ stream = "None"
    /\ buffer = <<>>

\* No VadProcessor::process call under examination.
NoVadCall == [kind |-> "none"]
InitVadIdle ==
    /\ v_in = NoVadCall
    /\ v_out = NoVadCall

\* No call made yet.
InitCalls ==
    /\ a_log = <<>>
    /\ a_ret = <<>>

\* Faulty variant of AudioStartRecording: the buffer is not cleared.
AudioStartRecordingNoClear(built) ==
    /\ buffer' = buffer
    /\ is_recording' = TRUE
    /\ stream' = IF built THEN "Some" ELSE stream

\* AudioCapture::start_recording: the buffer is cleared and the flag set
\* before the stream is built; when build_input_stream or play fails the
\* `?` returns early and self.stream keeps its old value.
AudioStartRecording(built) ==
    /\ buffer' = <<>>
    /\ is_recording' = TRUE
    /\ stream' = IF built THEN "Some" ELSE stream

\* Faulty variant of AudioStopRecording: the buffer is copied, not taken.
AudioStopRecordingKeepsBuffer ==
    /\ is_recording' = FALSE
    /\ stream' = "None"
    /\ buffer' = buffer

\* AudioCapture::stop_recording: returns the buffer taken (the unprimed
\* `buffer`), leaving an empty one.
AudioStopRecording ==
    /\ is_recording' = FALSE
    /\ stream' = "None"
    /\ buffer' = <<>>

\* The closure given to build_input_stream (the same in start_recording
\* and prewarm): the flag is loaded, and the block appended under the
\* buffer lock when it is set, discarded otherwise. The closure is owned by
\* the stream, so it does not run once the stream has been dropped.
DataCallback(block) ==
    IF is_recording
    THEN buffer' = Append(buffer, block)
    ELSE UNCHANGED buffer

\* AudioCapture::prewarm: nothing when a stream exists; otherwise a stream
\* is built and played, the flag and the buffer untouched.
AudioPrewarm(built) ==
    IF stream = "Some"
    THEN UNCHANGED audioVars
    ELSE /\ stream' = IF built THEN "Some" ELSE stream
         /\ UNCHANGED <<is_recording, buffer>>

\* Faulty variant of AudioCooldown: the stream is dropped whatever the flag.
AudioCooldownAlways ==
    /\ stream' = "None"
    /\ UNCHANGED <<is_recording, buffer>>

\* AudioCapture::cooldown: returns at once while the flag is set, drops the
\* stream otherwise.
AudioCooldown ==
    IF is_recording
    THEN UNCHANGED audioVars
    ELSE /\ stream' = "None"
         /\ UNCHANGED <<is_recording, buffer>>

\* AudioCapture::is_warm
AudioIsWarm == stream = "Some"

\* Faulty variant of AudioCallback: the append also waits for the lock on
\* the transcriber.
AudioCallbackWaitsForModel ==
    /\ stream = "Some"
    /\ is_recording
    /\ model_lock = "free"
    /\ Len(buffer) < MaxBlocks
    /\ \E n \in BlockLens : buffer' = Append(buffer, n)
    /\ UNCHANGED <<is_recording, stream, smVars, modelVars, workerVars,
                   configVars, callVars, vadVars, ctlVars, historyVars>>

\* The data callback of the input stream, run by the audio thread: a block
\* is appended while the flag is set.
AudioCallback ==
    /\ stream = "Some"
    /\ is_recording
    /\ Len(buffer) < MaxBlocks
    /\ \E n \in BlockLens : DataCallback(n)
    /\ UNCHANGED <<is_recording, stream, smVars, modelVars, workerVars,
                   configVars, callVars, vadVars, ctlVars, historyVars>>

----------------------------------------------------------------------------
(* hotkey.rs and main.rs: the hotkey listener and the controller *)

\* Number of hotkey events explored.
MaxHotkeys == 6

\* stop_and_submit: `samples.len() > 1600`
MinRecording == 1600

RecordingModes == {"PushToTalk", "Toggle"}

\* The n-th event the hotkey produces: a press, then its release, and so on.
HotkeyEvent(n) == IF n % 2 = 1 THEN "Pressed" ELSE "Released"

\* HotkeyHandler::listen: the listener thread forwards the next event on
\* the unbounded channel.
HotkeyListen ==
    /\ n_hotkeys < MaxHotkeys
    /\ n_hotkeys' = n_hotkeys + 1
    /\ hotkey_rx' = Append(hotkey_rx, HotkeyEvent(n_hotkeys + 1))
    /\ UNCHANGED <<c_pc, is_toggle_recording, smVars, modelVars, workerVars,
                   configVars, callVars, vadVars, audioVars, historyVars>>

\* main(): the event loop is about to run, nothing received yet.
InitController ==
    /\ c_pc = "wait"
    /\ hotkey_rx = <<>>
    /\ n_hotkeys = 0
    /\ is_toggle_recording = FALSE

\* start_recording: the capture is started, its error only logged, and the
\* state set to Recording.
StartRecording ==
    /\ \E built \in BOOLEAN : AudioStartRecording(built)
    /\ Store("Recording")
    /\ UNCHANGED <<slot, n_submit, submit_log, accepted>>

\* Faulty variant of StopAndSubmit: a recording of exactly 1600 samples is
\* submitted too.
StopAndSubmitGe ==
    /\ AudioStopRecording
    /\ IF BufferLen(buffer) >= MinRecording
       THEN /\ n_submit < MaxSubmits
            /\ Store("Transcribing")
            /\ n_submit' = n_submit + 1
            /\ TrySend(NewRequest(n_submit + 1, BufferLen(buffer)))
       ELSE /\ Store("Hot")
            /\ UNCHANGED <<slot, n_submit, submit_log, accepted>>

\* stop_and_submit: a recording of more than 1600 samples is submitted with
\* the state Transcribing, a shorter one is ignored with the state Hot.
StopAndSubmit ==
    /\ AudioStopRecording
    /\ IF BufferLen(buffer) > MinRecording
       THEN /\ n_submit < MaxSubmits
            /\ Store("Transcribing")
            /\ n_submit' = n_submit + 1
            /\ TrySend(NewRequest(n_submit + 1, BufferLen(buffer)))
       ELSE /\ Store("Hot")
            /\ UNCHANGED <<slot, n_submit, submit_log, accepted>>

\* Event::NewEvents(Poll | ResumeTimeReached): the controller wakes up and
\* starts draining the hotkey channel.
ControllerWake ==
    /\ c_pc = "wait"
    /\ c_pc' = "drain"
    /\ UNCHANGED <<hotkey_rx, n_hotkeys, is_toggle_recording, smVars, modelVars,
                   workerVars, configVars, callVars, vadVars, audioVars, historyVars>>

\* Faulty variant of ControllerHotkey: in Toggle mode a release toggles the
\* recording as a press does.
ControllerHotkeyToggleOnAny ==
    /\ c_pc = "drain"
    /\ hotkey_rx # <<>>
    /\ hotkey_rx' = Tail(hotkey_rx)
    /\ IF recording_mode = "PushToTalk"
       THEN /\ IF Head(hotkey_rx) = "Pressed" THEN StartRecording ELSE StopAndSubmit
            /\ UNCHANGED is_toggle_recording
       ELSE IF ~is_toggle_recording
            THEN StartRecording /\ is_toggle_recording' = TRUE
            ELSE StopAndSubmit /\ is_toggle_recording' = FALSE
    /\ UNCHANGED <<c_pc, n_hotkeys, t_pc, t_op, t_current, t_ret, modelVars,
                   w_pc, w_req, w_samples, events, configVars, callVars, vadVars,
                   pulled, n_returned, outcomes>>

\* One iteration of `while let Ok(evt) = hotkey_rx.try_recv()`.
ControllerHotkey ==
    /\ c_pc = "drain"
    /\ hotkey_rx # <<>>
    /\ hotkey_rx' = Tail(hotkey_rx)
    /\ IF recording_mode = "PushToTalk"
       THEN /\ IF Head(hotkey_rx) = "Pressed" THEN StartRecording ELSE StopAndSubmit
            /\ UNCHANGED is_toggle_recording
       ELSE IF Head(hotkey_rx) = "Pressed"
       THEN IF ~is_toggle_recording
            THEN StartRecording /\ is_toggle_recording' = TRUE
            ELSE StopAndSubmit /\ is_toggle_recording' = FALSE
       ELSE UNCHANGED <<state, audioVars, slot, n_submit, submit_log, accepted,
                        is_toggle_recording>>
    /\ UNCHANGED <<c_pc, n_hotkeys, t_pc, t_op, t_current, t_ret, modelVars,
                   w_pc, w_req, w_samples, events, configVars, callVars, vadVars,
                   pulled, n_returned, outcomes>>

\* Faulty variant of ControllerDrained: the closure returns with events left
\* in the hotkey channel.
ControllerDrainedEarly ==
    /\ c_pc = "drain"
    /\ c_pc' = "wait"
    /\ UNCHANGED <<hotkey_rx, n_hotkeys, is_toggle_recording, smVars, modelVars,
                   workerVars, configVars, callVars, vadVars, audioVars, historyVars>>

\* try_recv finds the hotkey channel empty: the closure returns.
ControllerDrained ==
    /\ c_pc = "drain"
    /\ hotkey_rx = <<>>
    /\ c_pc' = "wait"
    /\ UNCHANGED <<hotkey_rx, n_hotkeys, is_toggle_recording, smVars, modelVars,
                   workerVars, configVars, callVars, vadVars, audioVars, historyVars>>

\* Faulty variant of ControllerUserEvent: the event is handled and the state
\* left as it is.
ControllerUserEventKeepsState ==
    /\ c_pc = "wait"
    /\ events # <<>>
    /\ events' = Tail(events)
    /\ UNCHANGED <<smVars, modelVars, slot, w_pc, w_req, w_samples,
                   configVars, callVars, vadVars, ctlVars, audioVars,
                   historyVars>>

\* Faulty variant of ControllerUserEvent: only a completed transcription
\* returns the state to Hot.
ControllerUserEventCompleteOnly ==
    /\ c_pc = "wait"
    /\ events # <<>>
    /\ events' = Tail(events)
    /\ IF Head(events).type = "TranscriptionComplete"
       THEN Store("Hot")
       ELSE UNCHANGED state
    /\ UNCHANGED <<t_pc, t_op, t_current, t_ret, modelVars, slot, w_pc, w_req,
                   w_samples, configVars, callVars, vadVars, ctlVars, audioVars, historyVars>>

\* Event::UserEvent(TranscriptionComplete(text) | TranscriptionFailed): the
\* oldest posted event is handled (the text output, its error only logged,
\* or the indicator flashed) and transition_to_idle called.
ControllerUserEvent ==
    /\ c_pc = "wait"
    /\ events # <<>>
    /\ events' = Tail(events)
    /\ Store("Hot")
    /\ UNCHANGED <<t_pc, t_op, t_current, t_ret, modelVars, slot, w_pc, w_req,
                   w_samples, configVars, callVars, vadVars, ctlVars, audioVars, historyVars>>

ControllerNext ==
    \/ ControllerWake
    \/ ControllerHotkey
    \/ ControllerDrained
    \/ ControllerUserEvent

----------------------------------------------------------------------------
(* The dispatch layer as main() sets it up, driven by arbitrary submits *)

\* TranscriptionWorker::new: an empty channel, the worker blocked in recv.
InitWorker ==
    /\ slot = <<>>
    /\ w_pc = "recv"
    /\ w_req = NoRequest
    /\ w_samples = NoSamples
    /\ events = <<>>
    /\ n_submit = 0
    /\ submit_log = <<>>
    /\ accepted = <<>>
    /\ pulled = <<>>
    /\ n_returned = 0
    /\ outcomes = <<>>

\* main(): StateManager::new, ModelManager::new, load_async (Cold -> Loading,
\* one loading thread spawned), TranscriptionWorker::new.
InitDispatch ==
    /\ state = ToU8("Loading")
    /\ t_pc = [t \in Threads |-> "idle"]
    /\ t_op = [t \in Threads |-> "none"]
    /\ t_current = [t \in Threads |-> "Cold"]
    /\ t_ret = [t \in Threads |-> "none"]
    /\ transcriber = "None"
    /\ model_lock = "free"
    /\ loaders = [l \in LoaderIds |-> IF l = 1 THEN "new" ELSE "unspawned"]
    /\ InitWorker
    /\ InitController
    /\ InitAudio
    /\ InitCalls
    /\ InitVadIdle
    /\ vad_enabled \in BOOLEAN
    /\ device_rate \in Rates
    /\ recording_mode = "PushToTalk"

LoaderNext ==
    \E l \in LoaderIds :
        \/ LoaderStoreTranscriber(l)
        \/ LoaderTransitionToIdle(l)
        \/ LoaderFail(l)

WorkerNext ==
    \/ WorkerRecv
    \/ WorkerTrim
    \/ WorkerLock
    \/ WorkerEngine

NextDispatch ==
    \/ \E len \in RequestLens : Submit(len)
    \/ WorkerNext
    \/ WorkerPanic
    \/ LoaderNext

SpecDispatch == InitDispatch /\ [][NextDispatch]_vars

\* The same without panics, the worker and the loading thread being
\* scheduled fairly and every external call returning.
NextDispatchLive ==
    \/ \E len \in RequestLens : Submit(len)
    \/ WorkerNext
    \/ LoaderNext

SpecDispatchLive ==
    /\ InitDispatch
    /\ [][NextDispatchLive]_vars
    /\ WF_vars(WorkerNext)
    /\ WF_vars(LoaderNext)

----------------------------------------------------------------------------
(* Properties of the dispatch layer *)

Range(seq) == {seq[i] : i \in DOMAIN seq}

\* The outcomes posted for request id.
OutcomesOf(id) == {i \in DOMAIN outcomes : outcomes[i].req = id}

\* The worker is inside process_request.
Processing == w_pc \in {"process", "transcribe", "engine"}

\* What the last submit call logged.
LastSubmit == IF submit_log = <<>> THEN "none" ELSE submit_log[Len(submit_log)].result

\* C1: at most one request is being processed, hence at most one is inside
\* the engine's transcribe call: the worker has received at most one request
\* more than process_request has returned for, and while it processes, the
\* request in hand is the last one it received.
C1_OneRequestAtATime ==
    /\ Len(pulled) - n_returned \in {0, 1}
    /\ Processing => /\ Len(pulled) = n_returned + 1
                     /\ w_req.id = pulled[Len(pulled)]
    /\ w_pc = "engine" => model_lock = "worker"
    /\ w_pc = "recv" => Len(pulled) = n_returned

\* C1 witness: the engine is running on one request while the next one waits.
C1_Witness == w_pc = "engine" /\ slot # <<>> /\ n_returned >= 1

C3_OneOutcomePerRequest ==
    /\ \A id \in 1..n_submit : Cardinality(OutcomesOf(id)) <= 1
    /\ \A i \in DOMAIN outcomes : outcomes[i].req \in Range(pulled)
    /\ Range(pulled) \subseteq Range(accepted)
    /\ \A i \in DOMAIN submit_log :
          submit_log[i].result # "submitted" =>
              i \notin Range(accepted) /\ OutcomesOf(i) = {}
    /\ \A i \in DOMAIN pulled :
          (i <= n_returned) => Cardinality(OutcomesOf(pulled[i])) = 1
    /\ Len(outcomes) = n_returned
    /\ Len(events) = Len(outcomes)
    /\ Len(outcomes) <= Len(accepted)

\* C3 witness: two requests were processed and a third was dropped.
C3_Witness ==
    /\ Len(outcomes) = 2
    /\ w_pc = "recv"
    /\ \E i \in DOMAIN submit_log : submit_log[i].result = "full"

\* Request k was accepted and still waited in the slot when request k+1
\* was submitted.
BackToBack(k) ==
    /\ Len(submit_log) >= k + 1
    /\ submit_log[k].result = "submitted"
    /\ submit_log[k + 1].queued = k

SubmittedWhileBusy(k) ==
    /\ Len(submit_log) >= k + 1
    /\ submit_log[k].result = "submitted"
    /\ submit_log[k + 1].busy_with = k

Hello == TranscriptionComplete(<<"hello">>)

\* The Complete("hello") events posted for requests k and k+1.
HelloEvents(k) ==
    {i \in DOMAIN outcomes : outcomes[i].req \in {k, k + 1} /\ outcomes[i].ev = Hello}

\* C5 as stated: two submits, the second while the worker is busy with the
\* first, never lead to more than one Complete("hello").
C5_OneHelloInTotal ==
    \A k \in 1..(MaxSubmits - 1) :
        SubmittedWhileBusy(k) => Cardinality(HelloEvents(k)) <= 1

\* C5 amended: a request submitted while the worker is busy with the
\* previous one finds the slot empty and is accepted; each of the two gets
\* at most one outcome, and eventually exactly one.
C5_BothProcessed ==
    /\ [](\A k \in 1..(MaxSubmits - 1) :
             SubmittedWhileBusy(k) =>
                 /\ submit_log[k + 1].result = "submitted"
                 /\ Cardinality(OutcomesOf(k)) <= 1
                 /\ Cardinality(OutcomesOf(k + 1)) <= 1)
    /\ \A k \in 1..(MaxSubmits - 1) :
          SubmittedWhileBusy(k) ~>
              (Cardinality(OutcomesOf(k)) = 1 /\ Cardinality(OutcomesOf(k + 1)) = 1)

\* C5 witness: both requests of such a pair were recognised as "hello".
C5_Witness == SubmittedWhileBusy(1) /\ Cardinality(HelloEvents(1)) = 2

\* The ids of the requests in the order their outcomes were posted.
OutcomeOrder == [i \in DOMAIN outcomes |-> outcomes[i].req]

IsPrefix(a, b) == Len(a) <= Len(b) /\ \A i \in DOMAIN a : a[i] = b[i]

\* C6: outcomes are posted in the order of acceptance.
C6_OutcomesInAcceptanceOrder == IsPrefix(OutcomeOrder, accepted)

\* C6 witness: three requests were accepted and got their outcomes.
C6_Witness == Len(outcomes) = 3 /\ OutcomeOrder = accepted

\* C7: a queued request leaves the slot only by being received, the worker
\* returns to recv only by posting the outcome of the request in hand, and
\* every accepted request eventually has its outcome.
C7_AcceptedEventuallyAnswered ==
    /\ [][/\ \A i \in DOMAIN slot :
                \/ (i \in DOMAIN slot' /\ slot'[i] = slot[i])
                \/ (w_req' = slot[i] /\ pulled' = Append(pulled, slot[i].id))
          /\ (Processing /\ w_pc' = "recv") =>
                /\ Len(outcomes') = Len(outcomes) + 1
                /\ outcomes'[Len(outcomes')].req = w_req.id]_vars
    /\ \A k \in 1..MaxSubmits :
          (k \in Range(accepted)) ~> (OutcomesOf(k) # {})

\* C7 witness: every submit was accepted and answered.
C7_Witness ==
    /\ n_submit = MaxSubmits
    /\ Len(accepted) = MaxSubmits
    /\ \A k \in 1..MaxSubmits : OutcomesOf(k) # {}

\* C8: the dispatch layer holds at most one waiting request and at most
\* one request in processing; no more than two accepted requests are ever
\* unanswered.
C8_AtMostTwoHeld ==
    /\ Len(slot) <= 1
    /\ Len(pulled) - n_returned <= 1
    /\ Len(accepted) - n_returned <= 2
    /\ w_pc # "dead" => Len(accepted) = Len(pulled) + Len(slot)

\* C8 witness: one request in the engine, one waiting, a third dropped.
C8_Witness ==
    /\ w_pc = "engine"
    /\ Len(slot) = 1
    /\ LastSubmit = "full"
    /\ Len(accepted) - n_returned = 2

\* C9: submit can always complete at once, whatever the slot and the worker
\* are doing; a request submitted to a terminated worker is not accepted
\* and gets no outcome.
C9_SubmitNeverBlocks ==
    /\ n_submit < MaxSubmits => \A len \in RequestLens : ENABLED Submit(len)
    /\ Len(submit_log) = n_submit
    /\ \A i \in DOMAIN submit_log :
          submit_log[i].result = "disconnected" =>
              i \notin Range(accepted) /\ OutcomesOf(i) = {}

\* C9 witness: a submit found the worker terminated.
C9_Witness == LastSubmit = "disconnected" /\ w_pc = "dead"

----------------------------------------------------------------------------
(* The StateManager alone, its clones called from two threads *)

\* A fresh StateManager; nothing else of the program is running.
InitState ==
    /\ InitStateManager
    /\ transcriber = "None"
    /\ model_lock = "free"
    /\ loaders = [l \in LoaderIds |-> "unspawned"]
    /\ InitWorker
    /\ InitController
    /\ InitAudio
    /\ InitCalls
    /\ InitVadIdle
    /\ vad_enabled = TRUE
    /\ device_rate = 16000
    /\ recording_mode = "PushToTalk"

NextState ==
    /\ \E t \in Threads : StateManagerStep(t)
    /\ UNCHANGED <<modelVars, workerVars, configVars, callVars, vadVars, ctlVars, audioVars, historyVars>>

SpecState == InitState /\ [][NextState]_vars

\* Thread t returns from method op in this step.
Returns(t, op) ==
    /\ t_pc'[t] = "idle"
    /\ t_op'[t] = op
    /\ <<t_pc[t], t_op[t], t_ret[t], t_current[t]>> #
           <<t_pc'[t], t_op'[t], t_ret'[t], t_current'[t]>>

\* C10: when transition_to_loading returns, `current` being the state the
\* call found, it returns true iff `current` is Cold; on true the state is
\* Loading, on false the call has left the state as it found it.
C10_LoadingOnlyFromCold ==
    [][\A t \in Threads :
          Returns(t, "transition_to_loading") =>
              /\ t_ret'[t] \in {"true", "false"}
              /\ (t_ret'[t] = "true") <=> (t_current'[t] = "Cold")
              /\ t_ret'[t] = "true" => FromU8(state') = "Loading"
              /\ t_ret'[t] = "false" =>
                    /\ state' = state
                    /\ FromU8(state) = t_current'[t]
                    /\ t_pc[t] = "idle"]_vars

\* C10 witness: the call was refused with the state Transcribing, which
\* stayed.
C10_Witness ==
    /\ t_pc["t1"] = "idle"
    /\ t_op["t1"] = "transition_to_loading"
    /\ t_ret["t1"] = "false"
    /\ t_current["t1"] = "Transcribing"
    /\ Get = "Transcribing"

\* Thread t has not made any call yet.
NoCallYet(t) == t_op[t] = "none" /\ t_pc[t] = "idle"

\* C11: two calls of transition_to_loading that overlap in time do not both
\* return true.  Thread t is past its check and about to store; thread u
\* made no call since its own transition_to_loading returned true, and
\* the state is still the Loading that u stored, so u's store fell inside
\* t's call.  Then t must not return true as well.
C11_AtMostOneSuccess ==
    [][\A t \in Threads : \A u \in Threads \ {t} :
          ( /\ t_pc[t] = "loading_set"
            /\ t_pc[u] = "idle"
            /\ t_op[u] = "transition_to_loading"
            /\ t_ret[u] = "true"
            /\ Get = "Loading" )
          => ~(Returns(t, "transition_to_loading") /\ t_ret'[t] = "true")]_vars

\* C12: whenever transition_to_loading stores Loading and returns true, the
\* state immediately before that store is Cold.
C12_LoadingStoredOverCold ==
    [][\A t \in Threads :
          (Returns(t, "transition_to_loading") /\ t_ret'[t] = "true")
              => Get = "Cold"]_vars

\* C13: when transition_to_idle returns, the state is Hot, whatever it was
\* before, and the call has no result that could signal a refusal.
C13_IdleAlwaysHot ==
    [][\A t \in Threads :
          Returns(t, "transition_to_idle") =>
              /\ FromU8(state') = "Hot"
              /\ t_ret'[t] = "unit"]_vars

\* C13 witness: one thread, having read Recording, called
\* transition_to_idle and the state is Hot.
C13_Witness ==
    /\ NoCallYet("t2")
    /\ t_op["t1"] = "transition_to_idle"
    /\ t_pc["t1"] = "idle"
    /\ t_current["t1"] = "Recording"
    /\ Get = "Hot"

\* C14: transition_to_recording and transition_to_transcribing return true
\* from every state and leave the state Recording, respectively
\* Transcribing; in particular they do so when the state is not ready for
\* recording.
C14_RecordingTranscribingAlwaysSucceed ==
    [][\A t \in Threads :
          /\ Returns(t, "transition_to_recording") =>
                t_ret'[t] = "true" /\ FromU8(state') = "Recording"
          /\ Returns(t, "transition_to_transcribing") =>
                t_ret'[t] = "true" /\ FromU8(state') = "Transcribing"]_vars

\* C14 witness: one thread saw Loading (nothing loaded yet), then called
\* transition_to_recording, which returned true with the state Recording.
C14_Witness ==
    /\ NoCallYet("t2")
    /\ t_op["t1"] = "transition_to_recording"
    /\ t_ret["t1"] = "true"
    /\ t_current["t1"] = "Loading"
    /\ Get = "Recording"

\* C15: is_ready_for_recording returns true exactly when the state is Warm
\* or Hot, false in the four other states, and leaves the state as it is.
C15_IsReadyPure ==
    [][\A t \in Threads :
          Returns(t, "is_ready_for_recording") =>
              /\ state' = state
              /\ t_ret'[t] \in {"true", "false"}
              /\ (t_ret'[t] = "true") <=> (Get \in {"Warm", "Hot"})
              /\ (t_ret'[t] = "false") <=>
                     (Get \in {"Cold", "Loading", "Recording", "Transcribing"})]_vars

\* C15 witness: the predicate answered true on Warm, which is still the state.
C15_Witness ==
    /\ t_op["t1"] = "is_ready_for_recording"
    /\ t_pc["t1"] = "idle"
    /\ t_ret["t1"] = "true"
    /\ t_current["t1"] = "Warm"
    /\ Get = "Warm"

\* C16: transition_to_cold (unload, load failure) leaves the state Cold and
\* transition_to_idle (load success) leaves it Hot, from every state; both
\* return unit, and both can be called in every state by a thread that is
\* not inside another call.
C16_ColdAndHotFromAnywhere ==
    /\ [](\A t \in Threads :
             t_pc[t] = "idle" =>
                 ENABLED TransitionToCold(t) /\ ENABLED TransitionToIdle(t))
    /\ [][\A t \in Threads :
             /\ Returns(t, "transition_to_cold") =>
                   FromU8(state') = "Cold" /\ t_ret'[t] = "unit"
             /\ Returns(t, "transition_to_idle") =>
                   FromU8(state') = "Hot" /\ t_ret'[t] = "unit"]_vars

\* C16 witness: one thread saw Transcribing, then called transition_to_cold,
\* and the state is Cold.
C16_Witness ==
    /\ NoCallYet("t2")
    /\ t_op["t1"] = "transition_to_cold"
    /\ t_pc["t1"] = "idle"
    /\ t_current["t1"] = "Transcribing"
    /\ Get = "Cold"

----------------------------------------------------------------------------
(* The whole application: controller, hotkey listener, audio thread, worker
   and model-loading thread *)

\* main() up to event_loop.run: as InitDispatch, in either recording mode.
InitApp ==
    /\ state = ToU8("Loading")
    /\ t_pc = [t \in Threads |-> "idle"]
    /\ t_op = [t \in Threads |-> "none"]
    /\ t_current = [t \in Threads |-> "Cold"]
    /\ t_ret = [t \in Threads |-> "none"]
    /\ transcriber = "None"
    /\ model_lock = "free"
    /\ loaders = [l \in LoaderIds |-> IF l = 1 THEN "new" ELSE "unspawned"]
    /\ InitWorker
    /\ InitController
    /\ InitAudio
    /\ InitCalls
    /\ InitVadIdle
    /\ vad_enabled \in BOOLEAN
    /\ device_rate = 16000
    /\ recording_mode \in RecordingModes

NextApp ==
    \/ HotkeyListen
    \/ ControllerNext
    \/ AudioCallback
    \/ WorkerNext
    \/ WorkerPanic
    \/ LoaderNext

SpecApp == InitApp /\ [][NextApp]_vars

----------------------------------------------------------------------------
(* Properties of the whole application *)

\* The requests whose process_request call has returned.
Returned == {pulled[i] : i \in 1..n_returned}

\* Which thread takes a step, read off the variables only that thread
\* changes: the worker moves its position with every step, the loading
\* thread likewise, the listener counts the events it sends, the audio
\* thread appends a block, and the controller moves its position or takes
\* an event off one of its two queues.
WorkerStep == w_pc' # w_pc
LoaderStep == loaders' # loaders
ListenerStep == n_hotkeys' # n_hotkeys
AudioStep == Len(buffer') > Len(buffer)
ControllerStep ==
    \/ c_pc' # c_pc
    \/ Len(hotkey_rx') < Len(hotkey_rx)
    \/ Len(events') < Len(events)

\* C17: no step of the worker (receiving, trimming and the length check, the
\* inference call, posting the outcome, or its unwinding) changes the
\* readiness state; the posted outcome is taken off the event queue only by
\* the controller's handler, and it is that step which sets the state.
C17_WorkerLeavesReadiness ==
    [][/\ WorkerStep => state' = state
       /\ Len(events') < Len(events) =>
              /\ ~WorkerStep
              /\ c_pc = "wait"
              /\ events' = Tail(events)
              /\ FromU8(state') = "Hot"]_vars

\* C17 witness: the worker has processed a request and posted its outcome,
\* which the controller has not handled yet; the state is still the
\* Transcribing that stop_and_submit set.
C17_Witness ==
    /\ n_returned = 1
    /\ Len(outcomes) = 1
    /\ Len(events) = 1
    /\ w_pc = "recv"
    /\ Get = "Transcribing"

\* C18 as stated: every change of the readiness state is made by a step of
\* the controller thread.
C18_ControllerSoleWriter ==
    [][state' # state => ControllerStep]_vars

\* C18, amended: the readiness state is changed only by the controller
\* thread and by the model-loading thread, which sets Hot after a successful
\* load and Cold after a failed one; the worker, the hotkey listener and the
\* audio thread never change it.
C18_ControllerAndLoaderWrite ==
    [][/\ state' # state => ControllerStep \/ LoaderStep
       /\ (LoaderStep /\ state' # state) => FromU8(state') \in {"Hot", "Cold"}
       /\ (WorkerStep \/ ListenerStep \/ AudioStep) => state' = state]_vars

\* C18 witness: no hotkey event and no outcome event has occurred, so the
\* controller has written nothing, and the loading thread has set Hot.
C18_Witness ==
    /\ n_hotkeys = 0
    /\ outcomes = <<>>
    /\ loaders[1] = "done"
    /\ Get = "Hot"

\* C19: a request is received by the worker at most once (nothing is
\* retried); when process_request returns it has posted exactly one event
\* for the request, which is Failed unless it is Complete with a text; each
\* returned request has exactly one outcome; and the controller's handling
\* of a Failed event leaves the state Hot and submits nothing.
C19_FailuresConverge ==
    /\ [](/\ \A i, j \in DOMAIN pulled : pulled[i] = pulled[j] => i = j
          /\ \A id \in Returned : Cardinality(OutcomesOf(id)) = 1
          /\ \A i \in DOMAIN outcomes :
                \/ outcomes[i].ev = TranscriptionFailed
                \/ /\ outcomes[i].ev.type = "TranscriptionComplete"
                   /\ outcomes[i].ev.text # <<>>)
    /\ [][n_returned' # n_returned =>
              /\ n_returned' = n_returned + 1
              /\ events' = Append(events, outcomes'[Len(outcomes')].ev)
              /\ outcomes' = Append(outcomes, outcomes'[Len(outcomes')])
              /\ outcomes'[Len(outcomes')].req = w_req.id]_vars
    /\ [][(Len(events') < Len(events) /\ Head(events) = TranscriptionFailed) =>
              /\ FromU8(state') = "Hot"
              /\ UNCHANGED <<slot, n_submit, accepted, pulled>>]_vars

\* C19 witness: the load failed, so the one request made failed with the
\* engine not loaded; its Failed event has been handled and the state is Hot.
C19_Witness ==
    /\ loaders[1] = "done"
    /\ transcriber = "None"
    /\ n_returned = 1
    /\ Len(outcomes) = 1
    /\ outcomes[1].ev = TranscriptionFailed
    /\ events = <<>>
    /\ Get = "Hot"

\* C20: the length check is made on samples_to_transcribe, the samples left
\* after trimming (the original ones when trimming is off or the segmenter
\* failed).  With 1600 of them or fewer, or none, the worker posts Failed
\* and returns without calling the engine; with 1601 or more it goes on to
\* the inference call with exactly those samples.  So the engine is only
\* ever called with more than 1600 samples.
C20_MinLengthAfterTrimming ==
    /\ [](w_pc \in {"transcribe", "engine"} => SamplesLen(w_samples) >= MinSamples + 1)
    /\ [][(w_pc = "process" /\ w_pc' \notin {"process", "dead"}) =>
             \E build \in {"ok", "err"} :
             \E probs \in ClassifierOutputs(FullChunks(w_req.samples, w_req.sample_rate)) :
                LET s == SamplesToTranscribe(w_req, build, probs)
                IN  IF s.kind = "Some" /\ SamplesLen(s.samples) >= MinSamples + 1
                    THEN /\ w_pc' = "transcribe"
                         /\ w_samples' = s.samples
                         /\ UNCHANGED <<events, outcomes, n_returned>>
                    ELSE /\ w_pc' = "recv"
                         /\ events' = Append(events, TranscriptionFailed)
                         /\ outcomes' = Append(outcomes,
                                [req |-> w_req.id, ev |-> TranscriptionFailed])
                         /\ n_returned' = n_returned + 1]_vars
    /\ [][(w_pc = "process" /\ w_pc' \notin {"process", "dead"} /\ ~vad_enabled) =>
             IF SamplesLen(w_req.samples) <= MinSamples
             THEN w_pc' = "recv"
             ELSE w_pc' = "transcribe" /\ w_samples' = w_req.samples]_vars

\* C20 witness: trimming shortened a recording and more than 1600 samples
\* were left, with which the worker has gone on to the inference call.
C20_Witness ==
    /\ vad_enabled
    /\ w_pc = "engine"
    /\ SamplesLen(w_samples) < SamplesLen(w_req.samples)
    /\ SamplesLen(w_samples) > MinSamples

----------------------------------------------------------------------------
(* Properties of the worker's steps *)

\* C21: when the inference call returns, the event posted is Failed if the
\* call failed or returned an empty text, and Complete with exactly the
\* text returned otherwise; a text that, trimmed, is empty or is the marker
\* [BLANK_AUDIO] is returned as the empty text and so gives Failed; no
\* Complete event ever carries an empty text or the marker.
C21_EmptyTextFails ==
    /\ [](\A e \in EngineResults :
             e.ok =>
                 IF Trim(e.raw) \in {<<>>, BlankMarker}
                 THEN OutcomeOf(TranscriberTranscribe(e)) = TranscriptionFailed
                 ELSE OutcomeOf(TranscriberTranscribe(e)) =
                          TranscriptionComplete(Trim(e.raw)))
    /\ [](\A i \in DOMAIN outcomes :
             outcomes[i].ev.type = "TranscriptionComplete" =>
                 /\ outcomes[i].ev.text \notin {<<>>, BlankMarker}
                 /\ \E e \in EngineResults :
                       e.ok /\ TranscriberTranscribe(e).text = outcomes[i].ev.text)
    /\ [][(w_pc = "engine" /\ w_pc' = "recv") =>
             \E e \in EngineResults :
                LET r == TranscriberTranscribe(e)
                IN  events' = Append(events,
                                     IF r.ok /\ r.text # <<>>
                                     THEN TranscriptionComplete(r.text)
                                     ELSE TranscriptionFailed)]_vars

\* C21 witness: the engine's segments read " hello "; Complete carries the
\* trimmed text.
C21_Witness ==
    /\ w_pc = "recv"
    /\ Len(outcomes) = 1
    /\ outcomes[1].ev = TranscriptionComplete(<<"hello">>)
    /\ events = <<outcomes[1].ev>>

\* C22: with trimming enabled, whenever the segmenter returns an error for
\* the request in hand, samples_to_transcribe is the untrimmed original;
\* the worker can then take exactly the step the length check prescribes
\* for the original samples: on to the inference call with them when there
\* are more than 1600, Failed otherwise.
C22_SegmenterErrorFallsBack ==
    (w_pc = "process" /\ vad_enabled) =>
        /\ \A probs \in ClassifierOutputs(FullChunks(w_req.samples, w_req.sample_rate)) :
              /\ VadProcess(device_rate, w_req.samples, w_req.sample_rate,
                            "err", probs).kind = "Err"
              /\ SamplesToTranscribe(w_req, "err", probs) =
                     [kind |-> "Some", samples |-> w_req.samples]
        /\ IF SamplesLen(w_req.samples) > MinSamples
           THEN ENABLED (WorkerTrim /\ w_pc' = "transcribe" /\ w_samples' = w_req.samples)
           ELSE ENABLED (WorkerTrim /\ w_pc' = "recv"
                            /\ events' = Append(events, TranscriptionFailed))

\* C22 witness: at 48000 Hz the segmenter, when it runs, rejects every
\* recording of the lengths explored as shorter than 100 ms; the worker is
\* nevertheless in the inference call, with the original samples, so the
\* segmenter failed and the worker fell back.
C22_Witness ==
    /\ vad_enabled
    /\ device_rate = 48000
    /\ w_pc = "engine"
    /\ w_samples = w_req.samples

----------------------------------------------------------------------------
(* Properties of model loading in the application *)

\* Loader l has ended with a failed load.
LoadFailed(l) == loaders[l] = "done" /\ transcriber = "None"

\* C23: the step in which a load fails leaves the state Cold and stops no
\* thread: afterwards a press is still answered by start_recording, which
\* sets Recording.  While no engine is loaded, ModelManager::transcribe
\* returns its error at once and the worker posts Failed, and only Failed
\* events have been posted.
C23_LoadFailureNonFatal ==
    /\ [][\A l \in LoaderIds :
             (loaders[l] = "new" /\ loaders'[l] = "done") =>
                 FromU8(state') = "Cold" /\ transcriber' = "None"]_vars
    /\ []((\E l \in LoaderIds : LoadFailed(l)) =>
             /\ w_pc # "dead" => ENABLED WorkerNext \/ w_pc = "recv"
             /\ (c_pc = "drain" /\ hotkey_rx # <<>> /\ Head(hotkey_rx) = "Pressed"
                    /\ ~is_toggle_recording) =>
                   ENABLED (ControllerHotkey /\ FromU8(state') = "Recording"
                               /\ is_recording'))
    /\ [](transcriber = "None" =>
             \A i \in DOMAIN outcomes : outcomes[i].ev = TranscriptionFailed)
    /\ [][(w_pc = "transcribe" /\ w_pc' # w_pc /\ transcriber = "None") =>
             /\ w_pc' = "recv"
             /\ events' = Append(events, TranscriptionFailed)]_vars

\* C23 witness: the load has failed; a recording made all the same was
\* answered with Failed, and a further recording is under way.
C23_Witness ==
    /\ LoadFailed(1)
    /\ Len(outcomes) = 1
    /\ outcomes[1].ev = TranscriptionFailed
    /\ is_recording
    /\ Get = "Recording"

----------------------------------------------------------------------------
(* The ModelManager called by a thread while the worker transcribes *)

\* StateManager::new and ModelManager::new; no load started yet, the worker
\* waiting, trimming off.
InitModel ==
    /\ InitStateManager
    /\ transcriber = "None"
    /\ model_lock = "free"
    /\ loaders = [l \in LoaderIds |-> "unspawned"]
    /\ InitWorker
    /\ InitController
    /\ InitAudio
    /\ InitCalls
    /\ InitVadIdle
    /\ vad_enabled = FALSE
    /\ device_rate = 16000
    /\ recording_mode = "PushToTalk"

\* The thread calling load_async, ensure_loaded and unload.
Caller == "t1"

NextModel ==
    \/ ModelManagerStep(Caller)
    \/ LoaderNext
    \/ Submit(MinSamples + 1)
    \/ WorkerNext

SpecModel == InitModel /\ [][NextModel]_vars

\* C24: the worker is inside the engine's transcribe only with the lock held
\* and a transcriber present; while the lock is held unload cannot take its
\* first step, and it can as soon as the lock is free; no step taken while
\* the inference runs, including the one that ends it, removes the
\* transcriber.
C24_UnloadWaitsForTranscribe ==
    /\ [](w_pc = "engine" => transcriber = "Some" /\ model_lock = "worker")
    /\ [](model_lock # "free" => ~ENABLED UnloadTake(Caller))
    /\ []((model_lock = "free" /\ t_pc[Caller] = "idle") => ENABLED UnloadTake(Caller))
    /\ [][w_pc = "engine" => transcriber' = "Some"]_vars

\* C24 witness: an inference is running on a loaded engine, the caller is
\* free to call unload, and unload cannot proceed.
C24_Witness ==
    /\ w_pc = "engine"
    /\ transcriber = "Some"
    /\ t_pc[Caller] = "idle"
    /\ ~ENABLED UnloadTake(Caller)

\* The loading threads that have been spawned and have not finished.
LoadersInProgress == {l \in LoaderIds : loaders[l] \in {"new", "loaded"}}

\* C25: at most one loading thread is in progress at any time.
C25_AtMostOneLoader == Cardinality(LoadersInProgress) <= 1

----------------------------------------------------------------------------
\* C26: capture never waits on the inference lock. While the worker holds
\* the lock on the transcriber, the data callback can append whenever the
\* stream is open and the flag set, and the controller can handle the next
\* hotkey event (start_recording or stop_and_submit) whenever one is queued;
\* no step of the audio thread or of the controller takes or releases that
\* lock.
C26_CaptureIndependentOfInference ==
    /\ [](model_lock = "worker" =>
            /\ (stream = "Some" /\ is_recording /\ Len(buffer) < MaxBlocks
                    => ENABLED AudioCallback)
            /\ (c_pc = "drain" /\ hotkey_rx # <<>> /\ n_submit < MaxSubmits
                    => ENABLED ControllerHotkey))
    /\ [][(AudioStep \/ ControllerStep) => model_lock' = model_lock]_vars

\* The worker is still inside the inference call for the first request and
\* the second recording, started after it, has been captured, stopped and
\* submitted.
C26_Witness ==
    /\ model_lock = "worker"
    /\ w_req.id = 1
    /\ slot # <<>>
    /\ slot[1].id = 2
    /\ ~is_recording

----------------------------------------------------------------------------
(* audio.rs: AudioCapture called in any order by its owner, with the audio
   thread running the data callback of whatever stream exists. The methods
   take &mut self, so the calls are made one after another. *)

\* Number of calls and delivered blocks explored.
MaxCalls == 7

\* History: one more entry in the log of calls and deliveries.
Call(op, block) == a_log' = Append(a_log, [op |-> op, block |-> block])

\* Everything outside AudioCapture.
notAudioVars ==
    <<smVars, modelVars, workerVars, configVars, ctlVars, vadVars,
      historyVars>>

CallStartRecording ==
    /\ Len(a_log) < MaxCalls
    /\ \E built \in BOOLEAN : AudioStartRecording(built)
    /\ Call("start_recording", 0)
    /\ UNCHANGED <<a_ret, notAudioVars>>

CallStopRecording ==
    /\ Len(a_log) < MaxCalls
    /\ AudioStopRecording
    /\ a_ret' = buffer
    /\ Call("stop_recording", 0)
    /\ UNCHANGED notAudioVars

CallPrewarm ==
    /\ Len(a_log) < MaxCalls
    /\ \E built \in BOOLEAN : AudioPrewarm(built)
    /\ Call("prewarm", 0)
    /\ UNCHANGED <<a_ret, notAudioVars>>

CallCooldown ==
    /\ Len(a_log) < MaxCalls
    /\ AudioCooldown
    /\ Call("cooldown", 0)
    /\ UNCHANGED <<a_ret, notAudioVars>>

\* The stream delivers one more block to its data callback; the block is
\* given a length of its own (its position in the log) so that blocks can
\* be told apart.
StreamDeliver ==
    /\ Len(a_log) < MaxCalls
    /\ stream = "Some"
    /\ DataCallback(Len(a_log) + 1)
    /\ Call("callback", Len(a_log) + 1)
    /\ UNCHANGED <<is_recording, stream, a_ret, notAudioVars>>

InitAudioCalls ==
    /\ InitStateManager
    /\ transcriber = "None"
    /\ model_lock = "free"
    /\ loaders = [l \in LoaderIds |-> "unspawned"]
    /\ InitWorker
    /\ InitController
    /\ InitAudio
    /\ InitCalls
    /\ InitVadIdle
    /\ vad_enabled = FALSE
    /\ device_rate = 16000
    /\ recording_mode = "PushToTalk"

NextAudio ==
    \/ CallStartRecording
    \/ CallStopRecording
    \/ CallPrewarm
    \/ CallCooldown
    \/ StreamDeliver

SpecAudio == InitAudioCalls /\ [][NextAudio]_vars

----------------------------------------------------------------------------
\* The greatest position of the log holding one of the calls `ops`, 0 when
\* there is none.
LastIndex(log, ops) ==
    LET I == {i \in 1..Len(log) : log[i].op \in ops}
    IN IF I = {} THEN 0 ELSE CHOOSE i \in I : \A j \in I : j <= i

\* The blocks the log delivers at the positions after `from`, in order.
RECURSIVE BlocksAfter(_, _)
BlocksAfter(log, from) ==
    IF from >= Len(log) THEN <<>>
    ELSE LET rest == BlocksAfter(log, from + 1)
         IN IF log[from + 1].op = "callback"
            THEN <<log[from + 1].block>> \o rest
            ELSE rest

\* What a stop_recording made after the calls of `log` is to return: the
\* blocks delivered since the last start_recording, unless a stop_recording
\* has already taken them (or nothing was ever started).
Accumulated(log) ==
    LET s == LastIndex(log, {"start_recording"})
    IN IF s = 0 \/ LastIndex(log, {"stop_recording"}) > s
       THEN <<>>
       ELSE BlocksAfter(log, s)

\* The step is a call of `op`.
Calls(op) ==
    /\ Len(a_log') = Len(a_log) + 1
    /\ a_log'[Len(a_log')].op = op

\* C27: every stop_recording leaves the flag unset and the buffer empty and
\* returns, oldest first, exactly the blocks delivered since the last
\* start_recording; a stop_recording made right after another returns an
\* empty sequence.
C27_StopReturnsAccumulated ==
    [][Calls("stop_recording") =>
          /\ ~is_recording'
          /\ buffer' = <<>>
          /\ a_ret' = Accumulated(a_log)
          /\ (a_log # <<>> /\ a_log[Len(a_log)].op = "stop_recording"
                => a_ret' = <<>>)]_vars

\* A stop_recording has returned two blocks in the order of their delivery,
\* and a second stop_recording follows it (and has returned nothing).
C27_Witness ==
    /\ Len(a_log) >= 5
    /\ a_log[Len(a_log)].op = "stop_recording"
    /\ a_log[Len(a_log) - 1].op = "stop_recording"
    /\ a_log[Len(a_log) - 2].op = "callback"
    /\ a_log[Len(a_log) - 3].op = "callback"
    /\ a_log[Len(a_log) - 4].op = "start_recording"
    /\ a_ret = <<>>

----------------------------------------------------------------------------
\* The flag as the calls of the first n entries of `log` leave it: set by
\* the last start_recording unless a stop_recording followed.
ArmedAfter(log, n) ==
    LastIndex(SubSeq(log, 1, n), {"start_recording"})
        > LastIndex(SubSeq(log, 1, n), {"stop_recording"})

\* C28: start_recording leaves the buffer empty and the flag set, and every
\* block a stop_recording returns was delivered after the most recent
\* start_recording, at a moment the flag was set: no block of an earlier
\* recording window and no block delivered with the flag unset is returned.
C28_OnlySamplesSinceStart ==
    /\ [][Calls("start_recording") => buffer' = <<>> /\ is_recording']_vars
    /\ [][Calls("stop_recording") =>
            \A k \in 1..Len(a_ret') :
                \E i \in 1..Len(a_log) :
                    /\ a_log[i] = [op |-> "callback", block |-> a_ret'[k]]
                    /\ i > LastIndex(a_log, {"start_recording"})
                    /\ ArmedAfter(a_log, i - 1)]_vars

\* A stop_recording has returned a block, and the log holds, before the
\* most recent start_recording, a block delivered with the flag unset and a
\* block delivered in an earlier recording window.
C28_Witness ==
    /\ a_log # <<>>
    /\ a_log[Len(a_log)].op = "stop_recording"
    /\ a_ret # <<>>
    /\ \E i, j \in 1..LastIndex(a_log, {"start_recording"}) :
          /\ a_log[i].op = "callback"
          /\ ~ArmedAfter(a_log, i - 1)
          /\ a_log[j].op = "callback"
          /\ ArmedAfter(a_log, j - 1)

----------------------------------------------------------------------------
\* C29: a cooldown called while the flag is set changes neither the stream
\* nor the buffer nor the flag; called while it is unset it leaves no
\* stream and changes neither the buffer nor the flag; a cooldown made
\* right after another changes nothing.
C29_CooldownNoOpWhileRecording ==
    [][Calls("cooldown") =>
          /\ (is_recording => UNCHANGED audioVars)
          /\ (~is_recording =>
                 stream' = "None" /\ UNCHANGED <<is_recording, buffer>>)
          /\ (a_log # <<>> /\ a_log[Len(a_log)].op = "cooldown"
                => UNCHANGED audioVars)]_vars

\* A cooldown has just been called while recording, with the stream open
\* and a block captured, and is_warm still holds; earlier, with the flag
\* unset and the stream delivering, two cooldowns were called in a row.
C29_Witness ==
    /\ a_log # <<>>
    /\ a_log[Len(a_log)].op = "cooldown"
    /\ is_recording
    /\ AudioIsWarm
    /\ buffer # <<>>
    /\ \E i \in 2..(Len(a_log) - 1) :
          /\ a_log[i - 1].op = "callback"
          /\ a_log[i].op = "cooldown"
          /\ a_log[i + 1].op = "cooldown"
          /\ ~ArmedAfter(a_log, i)

----------------------------------------------------------------------------
\* C30: the hotkey channel holds, oldest first, exactly the events generated
\* and not yet handled; the listener adds each event at its end; the
\* controller handles the oldest one (a press starts the recording, a
\* release, or in Toggle mode the next press, stops it) and removes that
\* one only; and a wake-up of the controller ends only with the channel
\* empty, so that everything buffered before or during it has been handled.
C30_HotkeysInOrderNoneLost ==
    /\ [](hotkey_rx = [i \in 1..Len(hotkey_rx) |->
                          HotkeyEvent(n_hotkeys - Len(hotkey_rx) + i)])
    /\ [][ListenerStep =>
            hotkey_rx' = Append(hotkey_rx, HotkeyEvent(n_hotkeys'))]_vars
    /\ [][Len(hotkey_rx') < Len(hotkey_rx) =>
            /\ c_pc = "drain"
            /\ hotkey_rx' = Tail(hotkey_rx)
            /\ n_hotkeys' = n_hotkeys
            /\ IF recording_mode = "PushToTalk"
               THEN is_recording' = (Head(hotkey_rx) = "Pressed")
               ELSE IF Head(hotkey_rx) = "Pressed"
               THEN is_recording' = ~is_toggle_recording
               ELSE UNCHANGED is_recording]_vars
    /\ [][c_pc = "drain" /\ c_pc' = "wait" => hotkey_rx = <<>>]_vars

\* The first press was handled in an earlier wake-up and the recording is
\* running; three more events have been generated since and wait, in order,
\* for the next wake-up.
C30_Witness ==
    /\ c_pc = "wait"
    /\ n_hotkeys = 4
    /\ hotkey_rx = <<"Released", "Pressed", "Released">>
    /\ is_recording

----------------------------------------------------------------------------
\* Number of hotkey events the controller has handled.
Handled == n_hotkeys - Len(hotkey_rx)

\* Number of presses among the first n events generated.
PressesIn(n) == Cardinality({i \in 1..n : HotkeyEvent(i) = "Pressed"})

\* The step handles one hotkey event.
HandlesHotkey == Len(hotkey_rx') < Len(hotkey_rx)

\* C31: in Toggle mode, handling a release changes neither the capture, nor
\* the toggle flag, nor the readiness state, nor the request channel;
\* handling the 1st, 3rd, ... press starts a recording (flag set, buffer
\* cleared, state Recording, toggle flag set) and handling the 2nd, 4th, ...
\* press stops it (flag unset, toggle flag unset) and submits it when it
\* is long enough.
C31_ToggleActsOnPresses ==
    [][HandlesHotkey /\ recording_mode = "Toggle" =>
          IF Head(hotkey_rx) = "Released"
          THEN UNCHANGED <<audioVars, is_toggle_recording, state, slot,
                           n_submit>>
          ELSE IF PressesIn(Handled + 1) % 2 = 1
          THEN /\ is_recording' /\ buffer' = <<>>
               /\ is_toggle_recording'
               /\ state' = ToU8("Recording")
               /\ UNCHANGED <<slot, n_submit>>
          ELSE /\ ~is_recording' /\ buffer' = <<>>
               /\ ~is_toggle_recording'
               /\ IF BufferLen(buffer) > MinRecording
                  THEN n_submit' = n_submit + 1 /\ state' = ToU8("Transcribing")
                  ELSE n_submit' = n_submit /\ state' = ToU8("Hot")]_vars

\* Toggle mode: the first press started a recording, the second stopped
\* and submitted it, the third started another, and the release after it
\* has been handled with the recording still running.
C31_Witness ==
    /\ recording_mode = "Toggle"
    /\ Handled = 6
    /\ n_submit = 1
    /\ is_recording
    /\ is_toggle_recording

----------------------------------------------------------------------------
(* vad.rs: VadProcessor::process applied once to arguments drawn from
   bounded sets. The processor is built with the rate of the input device
   and called with the rate of the request, which main() takes from the
   same device. *)

\* Greatest number of full chunks in the buffers explored.
MaxChunks == 9

\* Probabilities the classifier returns: the threshold itself and just
\* above it.
Probabilities == {VadThreshold, VadThreshold + 1}

\* Samples left after the last full chunk: none, one, one short of a chunk,
\* and around the padding.
Remainders(rate) ==
    LET c == ChunkSize(rate)
        p == PaddingSamples(rate) % c
    IN {r \in {0, 1, p - 1, p, p + 1, c - 1} : r >= 0 /\ r < c}

\* The calls explored: `probs[i]` is what the classifier answers for chunk
\* i, entry k standing for the partial chunk, were it ever asked.
VadCallOf(rate, k, r, probs) ==
    [kind |-> "call", rate |-> rate,
     samples |-> [from |-> 0, to |-> k * ChunkSize(rate) + r],
     probs |-> probs]

InitVad ==
    /\ InitStateManager
    /\ transcriber = "None"
    /\ model_lock = "free"
    /\ loaders = [l \in LoaderIds |-> "unspawned"]
    /\ InitWorker
    /\ InitController
    /\ InitAudio
    /\ InitCalls
    /\ vad_enabled = TRUE
    /\ device_rate = 16000
    /\ recording_mode = "PushToTalk"
    /\ \E rate \in Rates, k \in 0..MaxChunks :
          \E r \in Remainders(rate), probs \in [0..k -> Probabilities] :
              v_in = VadCallOf(rate, k, r, probs)
    /\ v_out = NoVadCall

\* vad.process(&samples, sample_rate), the detector built or not.
VadCall ==
    /\ v_out = NoVadCall
    /\ \E build \in {"ok", "err"} :
          v_out' = VadProcess(v_in.rate, v_in.samples, v_in.rate, build,
                              v_in.probs)
    /\ UNCHANGED <<v_in, smVars, modelVars, workerVars, configVars, ctlVars,
                   audioVars, callVars, historyVars>>

NextVad == VadCall

SpecVad == InitVad /\ [][NextVad]_vars

----------------------------------------------------------------------------
\* The call examined, read off its arguments alone.
InLen == v_in.samples.to - v_in.samples.from
InChunk == IF v_in.rate = 8000 THEN 256 ELSE 512
\* Full chunks whose probability is above the threshold.
Above == {i \in 0..((InLen \div InChunk) - 1) : v_in.probs[i] > VadThreshold}
\* a: start of the first such chunk; b: end of the last one.
SpanA == InChunk * (CHOOSE i \in Above : \A j \in Above : i <= j)
SpanB == InChunk * (1 + CHOOSE i \in Above : \A j \in Above : i >= j)
\* 50 ms and 100 ms of samples.
Pad == (v_in.rate * 50) \div 1000
MinSpan == (v_in.rate * 100) \div 1000
PaddedLo == IF SpanA - Pad > 0 THEN SpanA - Pad ELSE 0
PaddedHi == IF SpanB + Pad < InLen THEN SpanB + Pad ELSE InLen
Answered == v_out.kind \in {"None", "Some"}

\* C32: when some full chunk is above the threshold and the padded span
\* [max(0, a - pad), min(len, b + pad)) is long enough, the call returns
\* exactly the samples of that span; and whatever slice it returns is that
\* span.
C32_PaddedSpan ==
    /\ (Answered /\ Above # {} /\ PaddedHi - PaddedLo >= MinSpan
          => v_out = [kind |-> "Some",
                      samples |-> [from |-> v_in.samples.from + PaddedLo,
                                   to |-> v_in.samples.from + PaddedHi]])
    /\ (v_out.kind = "Some"
          => /\ Above # {}
             /\ v_out.samples.from = v_in.samples.from + PaddedLo
             /\ v_out.samples.to = v_in.samples.from + PaddedHi)

\* A slice returned for two or more chunks above the threshold, its padding
\* cut at the start of the buffer and whole at the end.
C32_Witness ==
    /\ v_out.kind = "Some"
    /\ SpanA - Pad < 0
    /\ SpanB + Pad < InLen
    /\ v_out.samples.from = 0
    /\ v_out.samples.to = SpanB + Pad
    /\ Cardinality(Above) >= 2

----------------------------------------------------------------------------
\* C33: with a chunk above the threshold, the call returns no speech when
\* the padded span is shorter than 100 ms of samples and the slice when it
\* is that long or longer.
C33_MinimumSpan ==
    Answered /\ Above # {} =>
        /\ (PaddedHi - PaddedLo < MinSpan => v_out.kind = "None")
        /\ (PaddedHi - PaddedLo >= MinSpan => v_out.kind = "Some")

\* A slice of exactly 100 ms has been returned.
C33_Witness ==
    /\ v_out.kind = "Some"
    /\ Above # {}
    /\ PaddedHi - PaddedLo = MinSpan
    /\ v_out.samples.to - v_out.samples.from = MinSpan

\* C34: only the full chunks count. With no full chunk strictly above the
\* threshold (a buffer shorter than one chunk included, and whatever the
\* final partial chunk holds) the call returns no speech; a slice returned
\* lies within the padding of the first and the last full chunk above the
\* threshold.
C34_OnlyFullChunks ==
    /\ (Answered /\ Above = {} => v_out.kind = "None")
    /\ (v_out.kind = "Some" =>
          /\ Above # {}
          /\ SpanB <= InChunk * (InLen \div InChunk)
          /\ v_out.samples.from >= v_in.samples.from + SpanA - Pad
          /\ v_out.samples.to <= v_in.samples.from + SpanB + Pad)

\* No speech returned for a buffer of several full chunks, all at the
\* threshold exactly, with a partial chunk that would be above it.
C34_Witness ==
    /\ v_out.kind = "None"
    /\ InLen \div InChunk >= 4
    /\ InLen % InChunk # 0
    /\ v_in.probs[InLen \div InChunk] > VadThreshold
    /\ Above = {}

----------------------------------------------------------------------------
\* The step handles the hotkey event that stops the recording: a release in
\* PushToTalk mode, a press with the toggle flag set in Toggle mode.
StopsRecording ==
    /\ HandlesHotkey
    /\ IF recording_mode = "PushToTalk"
       THEN Head(hotkey_rx) = "Released"
       ELSE Head(hotkey_rx) = "Pressed" /\ is_toggle_recording

\* C35: a stop_and_submit that finds 1600 samples or fewer makes no submit
\* call, leaves the request channel as it is and sets the state Hot; one
\* that finds more sets the state Transcribing and makes one submit call,
\* whose request (queued, or dropped when the channel is full) holds the
\* captured samples and the rate of the device. Outcomes are posted only
\* for requests the channel accepted, at most one each, so a recording not
\* submitted never has one.
C35_ShortRecordingNotSubmitted ==
    /\ [][StopsRecording =>
            IF BufferLen(buffer) <= 1600
            THEN /\ state' = ToU8("Hot")
                 /\ UNCHANGED <<slot, n_submit, submit_log, accepted, events>>
            ELSE /\ state' = ToU8("Transcribing")
                 /\ n_submit' = n_submit + 1
                 /\ Len(submit_log') = Len(submit_log) + 1
                 /\ \/ slot' = slot /\ accepted' = accepted
                    \/ /\ slot' = Append(slot,
                              [id |-> n_submit', sample_rate |-> device_rate,
                               samples |-> [from |-> 0,
                                            to |-> BufferLen(buffer)]])
                       /\ accepted' = Append(accepted, n_submit')]_vars
    /\ [](/\ \A i \in 1..Len(outcomes) :
                \E j \in 1..Len(accepted) : outcomes[i].req = accepted[j]
          /\ \A i, j \in 1..Len(outcomes) :
                outcomes[i].req = outcomes[j].req => i = j
          /\ Len(accepted) <= n_submit)

\* Two recordings have been stopped: one was too short and ignored, the
\* other is queued with its 1601 samples.
C35_Witness ==
    /\ Handled = 4
    /\ n_submit = 1
    /\ state = ToU8("Transcribing")
    /\ slot = <<[id |-> 1, sample_rate |-> device_rate,
                 samples |-> [from |-> 0, to |-> 1601]]>>
    /\ recording_mode = "PushToTalk"

----------------------------------------------------------------------------
(* The application with a worker that never panics, under the scheduling
   the code relies on: the worker and the loading thread keep running, the
   event loop keeps waking up every check_interval, finishes the drain it
   has begun, and delivers every event posted through the proxy. *)

\* As InitApp, in PushToTalk mode and without a VadProcessor.
InitAppLive ==
    /\ InitApp
    /\ ~vad_enabled
    /\ recording_mode = "PushToTalk"

NextAppLive ==
    \/ HotkeyListen
    \/ ControllerNext
    \/ AudioCallback
    \/ WorkerNext
    \/ LoaderNext

SpecAppLive ==
    /\ InitAppLive
    /\ [][NextAppLive]_vars
    /\ WF_vars(WorkerNext)
    /\ WF_vars(LoaderNext)
    /\ WF_vars(ControllerWake \/ ControllerHotkey \/ ControllerDrained)
    /\ SF_vars(ControllerUserEvent)

\* C36: whenever the state is Transcribing it later is not: it is never
\* stuck at Transcribing, whether the request submitted was queued or
\* dropped.
C36_TranscribingIsLeft ==
    (state = ToU8("Transcribing")) ~> (state # ToU8("Transcribing"))

\* The third recording has just been submitted and dropped, the channel
\* being full, and the state is Transcribing.
C36_Witness ==
    /\ Len(submit_log) = 3
    /\ submit_log[3].result = "full"
    /\ state = ToU8("Transcribing")
    /\ ~is_recording

----------------------------------------------------------------------------
\* C37: whenever the state is Hot the transcriber is loaded.
C37_HotImpliesLoaded ==
    state = ToU8("Hot") => transcriber = "Some"

----------------------------------------------------------------------------
\* C38: while a recording window is open (the append flag set by the
\* controller's start_recording and not yet unset by stop_and_submit) the
\* state is Recording.
C38_RecordingDuringWindow ==
    is_recording => state = ToU8("Recording")

----------------------------------------------------------------------------
\* C39: whenever the state is Hot no request waits in the channel and the
\* worker is processing none.
C39_HotImpliesDispatchEmpty ==
    state = ToU8("Hot") => slot = <<>> /\ w_req = NoRequest

----------------------------------------------------------------------------
\* C40: a start_recording whose stream could not be opened leaves the
\* capture not recording and the state not Recording. The stream is None
\* only before the first recording, after a stop_recording, and after such
\* a failure, so: whenever there is no stream, the append flag is unset and
\* the state is not Recording.
C40_FailedStartNotRecording ==
    stream = "None" => ~is_recording /\ state # ToU8("Recording")

====
